---- MODULE Spec2Model ----
(***************************************************************************)
(* Liveness and resource-metrics probing engine of the homelab dashboard   *)
(* backend: the fan-out batch operations (GetServices, GetDevicesWithPing, *)
(* GetContainers), the port-probe primitive (pingDeviceFast), the          *)
(* container stats cache (getCachedStats) and the metrics history buffer   *)
(* (collectHistoryBackground, GetMetricsHistory).                          *)
(*                                                                         *)
(* One variable, scen, names the subsystem a behaviour exercises; each     *)
(* specification fixes it in its initial predicate, so the state spaces of *)
(* the subsystems add up instead of multiplying.                           *)
(***************************************************************************)
EXTENDS Integers, Sequences, FiniteSets, TLC

VARIABLES
    scen,        \* subsystem exercised: "batch", "cache", "locks", "history", "ping",
                 \* "check", "stats", "pingdev", "fast", "docker"
    \* ---- fan-out batch (GetServices / GetDevicesWithPing / GetContainers)
    kind,        \* "services", "devices" or "containers"
    targets,     \* rows returned by the store query / ContainerList, in order
    mainpc,      \* position of the batch caller
    spawned,     \* loop index of the spawning for-loop
    wg,          \* sync.WaitGroup counter
    wpc,         \* position of each worker goroutine
    wlocal,      \* the worker's private result (status / container)
    result,      \* the pre-sized result slice (devices: the devices slice)
    outcome,     \* the network outcome each worker observed
    completed,   \* worker indices in the order their slot was written
    db,          \* persisted is_online / last_seen per device id
    dbops,       \* the updates issued to the devices table
    \* ---- container stats cache
    connected,   \* s.client != nil
    statsCache,  \* map key -> cachedStats (exists, stats, timestamp)
    failedAt,    \* per key, when the sample of a failed runtime read was last
                 \* stored, NoTime when it never was
    now,         \* wall clock, in seconds
    cpc,         \* position of each getCachedStats caller
    ckey,        \* containerID argument of each call
    ccached,     \* the caller's copy (cached, exists) read under RLock
    cstats,      \* the caller's stats value (fetched or cached)
    cread,       \* whether this call read the container runtime
    cacheReaders,\* callers holding cacheMutex in shared mode
    cacheWriter, \* caller holding cacheMutex in exclusive mode, or NoCaller
    \* ---- metrics history
    history,     \* s.history: the points, oldest first
    spc,         \* position of collectHistoryBackground
    spoint,      \* the point the sampler built and has not appended yet
    nsampled,    \* number of points the sampler has built
    hReaders,    \* GetMetricsHistory calls holding s.mu in shared mode
    hWriter,     \* whether the sampler holds s.mu in exclusive mode
    rpc,         \* position of each GetMetricsHistory request
    rlimit,      \* its limit argument
    rresult,     \* the slice it returned
    \* ---- pingDeviceFast
    pingpc,      \* position of the pingDeviceFast call
    launched,    \* goroutines the for-loop over ports has started
    dialing,     \* goroutines whose DialTimeout has not returned yet
    resultCh,    \* the buffered channel result, oldest send first
    pingI,       \* i of the receive loop
    pingReturn,  \* the value pingDeviceFast returned
    icmpRun,     \* how the ping utility ran, NoRun when it was not invoked
    accepted,    \* dials that connected
    refused,     \* dials that ended with an error
    \* ---- single-target service check (GetService / CheckServiceHealth)
    hpc,         \* position of the call
    hrow,        \* the service row the store holds
    hargs,       \* the (id, userID) arguments of the call
    hstatus,     \* status, the ServiceStatus under construction
    hreq,        \* method of the request built so far, "" when none
    hport,       \* index into ports of the PING loop
    netlog,      \* network operations issued, in order
    hclock,      \* milliseconds since the call began
    hstart,      \* start := time.Now()
    herr,        \* the error returned, "" when nil
    \* ---- getContainerStats arithmetic
    tpc,         \* position in getContainerStats after the decode
    statsJSON,   \* the decoded stats record (the fields the arithmetic reads)
    cpuPercent,  \* cpuPercent, as a fraction num/den
    memoryPercent, \* memoryPercent, as a fraction num/den
    \* ---- single-device probe (PingDevice)
    dpc,         \* position of the PingDevice call
    dargs,       \* its (id, userID) arguments
    isOnline,    \* isOnline := s.pingDeviceFast(device.IP)
    dprobed,     \* whether pingDeviceFast was called
    derr,        \* the error returned, "" when nil
    \* ---- fast path (GetDevices / GetServicesBasic)
    fkind,       \* "devices" or "services"
    frows,       \* the caller's rows, in the order the query returns them
    fresults,    \* what the calls made so far returned, in order
    fprobes,     \* network probes issued by the calls
    fchanged,    \* whether another request wrote to the store in between
    \* ---- DockerService operations, with and without a runtime client
    opc,         \* position of the call
    oop,         \* the operation called
    ores,        \* what it returned: "" before the return
    oerr         \* the error it returned, "" when nil or when it has none

batchVars == <<kind, targets, mainpc, spawned, wg, wpc, wlocal, result,
               outcome, completed, db, dbops>>
cacheVars == <<connected, statsCache, failedAt, now, cpc, ckey, ccached, cstats, cread,
               cacheReaders, cacheWriter>>
histVars == <<history, spc, spoint, nsampled, hReaders, hWriter, rpc, rlimit,
              rresult>>
pingVars == <<pingpc, launched, dialing, resultCh, pingI, pingReturn, icmpRun,
              accepted, refused>>
checkVars == <<hpc, hrow, hargs, hstatus, hreq, hport, netlog, hclock, hstart,
               herr>>
statVars == <<tpc, statsJSON, cpuPercent, memoryPercent>>
devVars == <<dpc, dargs, isOnline, dprobed, derr>>
\* the batch variables a PingDevice call leaves alone
batchRest == <<kind, targets, mainpc, spawned, wg, wpc, wlocal, result, outcome,
               completed>>
fastVars == <<fkind, frows, fresults, fprobes, fchanged>>
dockVars == <<opc, oop, ores, oerr>>
\* what the batch and cache actions leave alone
otherVars == <<scen, histVars, pingVars, checkVars, statVars, devVars, fastVars,
               dockVars>>
vars == <<scen, batchVars, cacheVars, histVars, pingVars, checkVars, statVars,
          devVars, fastVars, dockVars>>

(***************************************************************************)
(* Bounds of the model.                                                    *)
(***************************************************************************)
\* largest number of rows a batch fans out over
MaxTargets == 3
\* length of a full container id (Docker ids are 64 hex digits; any length
\* above ShortIDLen shows the truncation)
IDLen == 13
\* last clock value explored
MaxTime == 6
\* number of distinct non-zero samples the runtime can return
MaxSample == 2
\* number of points the sampler builds
MaxAppends == 105
\* largest latency of one network operation, in milliseconds
MaxLatency == 2
\* the cumulative counters of a stats record are unsigned and wrap; the
\* model keeps them modulo CounterMod in place of 2^64
CounterMod == 8

(***************************************************************************)
(* Program constants.                                                      *)
(***************************************************************************)
\* const statsCacheTTL = 5 * time.Second
statsCacheTTL == 5
\* convertContainer: ID: c.ID[:12]
ShortIDLen == 12
\* a nil *time.Time (Device.LastSeen never set)
NoTime == 0 - 1
\* maxHistory: 100
maxHistory == 100
\* c.DefaultQuery("limit", "50"), and limit = 50 when Atoi fails
DefaultLimit == 50

Indices == 1..MaxTargets
\* goroutines serving GET /containers/:id (GetContainer)
Lookups == {101, 102}
Callers == Indices \cup Lookups
NoCaller == 0

(***************************************************************************)
(* Rows of the external collaborators.                                     *)
(***************************************************************************)
\* models.ServiceConfig rows of the store (the fields the engine reads; Category
\* and Name are the ranks of the strings the query orders by)
ServiceRows ==
    { [ID |-> 1, Category |-> 2, Name |-> 1, IsActive |-> TRUE,
       Method |-> "GET", URLok |-> TRUE],
      [ID |-> 2, Category |-> 1, Name |-> 2, IsActive |-> TRUE,
       Method |-> "TCP", URLok |-> TRUE],
      [ID |-> 3, Category |-> 1, Name |-> 1, IsActive |-> FALSE,
       Method |-> "GET", URLok |-> TRUE],
      [ID |-> 4, Category |-> 2, Name |-> 2, IsActive |-> TRUE,
       Method |-> "PING", URLok |-> TRUE] }

\* models.Device rows of the store (the fields GetDevicesWithPing touches)
DeviceRows ==
    { [ID |-> 1, Name |-> 3, IsOnline |-> FALSE, LastSeen |-> NoTime],
      [ID |-> 2, Name |-> 1, IsOnline |-> TRUE,  LastSeen |-> 0],
      [ID |-> 3, Name |-> 4, IsOnline |-> FALSE, LastSeen |-> 0],
      [ID |-> 4, Name |-> 2, IsOnline |-> TRUE,  LastSeen |-> 0] }

\* a full container id, as the runtime reports it
FullID(n) == [i \in 1..IDLen |-> n]

\* types.Container entries of the runtime (the fields the batch reads; Pos is
\* the place of the container in the runtime's listing)
ContainerRows ==
    { [ID |-> FullID(1), Pos |-> 2, State |-> "running"],
      [ID |-> FullID(2), Pos |-> 4, State |-> "running"],
      [ID |-> FullID(3), Pos |-> 1, State |-> "exited"],
      [ID |-> FullID(4), Pos |-> 3, State |-> "paused"] }

\* c.ID[:12]
ShortID(id) == SubSeq(id, 1, ShortIDLen)

RowsOf(k) ==
    IF k = "services" THEN ServiceRows
    ELSE IF k = "devices" THEN DeviceRows
    ELSE ContainerRows

\* Order("category ASC, name ASC") / Order("name ASC") / the runtime's listing
Before(k, a, b) ==
    IF k = "services"
    THEN a.Category < b.Category \/ (a.Category = b.Category /\ a.Name < b.Name)
    ELSE IF k = "devices" THEN a.Name < b.Name
    ELSE a.Pos < b.Pos

\* what the query of one owner can return: some of the rows, in query order
TargetLists(k) ==
    { q \in UNION { [1..n -> RowsOf(k)] : n \in 0..MaxTargets } :
        \A i, j \in 1..Len(q) : i < j => Before(k, q[i], q[j]) }

N == Len(targets)

(***************************************************************************)
(* checkService: the protocol-dispatch health check.                       *)
(***************************************************************************)
\* HTTP status codes a probed server answers with; 0 stands for a transport
\* error (no response)
HttpOutcomes == {0, 199, 200, 399, 400, 499, 500}

\* ports := []string{"80", "443", "22"}
PingPorts == <<80, 443, 22>>

\* what the network does to one check: the TCP connect of the TCP method, the
\* connects of the PING method port by port, the HTTP exchange, the elapsed ms
NetOutcomes(svc) ==
    IF ~svc.IsActive THEN
        { [tcp |-> FALSE, ports |-> <<FALSE, FALSE, FALSE>>, http |-> 0, ms |-> 0] }
    ELSE IF svc.Method = "TCP" THEN
        { [tcp |-> b, ports |-> <<FALSE, FALSE, FALSE>>, http |-> 0, ms |-> 2] :
            b \in BOOLEAN }
    ELSE IF svc.Method = "PING" THEN
        { [tcp |-> FALSE, ports |-> p, http |-> 0, ms |-> 2] :
            p \in [1..Len(PingPorts) -> BOOLEAN] }
    ELSE
        { [tcp |-> FALSE, ports |-> <<FALSE, FALSE, FALSE>>, http |-> h, ms |-> 2] :
            h \in HttpOutcomes }

NoNet == [tcp |-> FALSE, ports |-> <<FALSE, FALSE, FALSE>>, http |-> 0, ms |-> 0]

\* the zero value of ServiceStatus (make([]ServiceStatus, n))
ZeroService ==
    [ID |-> 0, Status |-> "", StatusCode |-> 0, ResponseTime |-> 0,
     IsActive |-> FALSE]

\* status := ServiceStatus{ID: svc.ID, ..., Status: "offline", ...}
InitialStatus(svc) ==
    [ID |-> svc.ID, Status |-> "offline", StatusCode |-> 0, ResponseTime |-> 0,
     IsActive |-> svc.IsActive]

\* a classification whose online range includes 400
ClassifyHTTPWide(code) ==
    IF code >= 200 /\ code <= 400 THEN "online"
    ELSE IF code > 400 /\ code < 500 THEN "error"
    ELSE "offline"

\* a classification with a status of its own for informational responses
ClassifyHTTPInformational(code) ==
    IF code < 200 THEN "unknown"
    ELSE IF code < 400 THEN "online"
    ELSE IF code < 500 THEN "error"
    ELSE "offline"

\* the status-code classification of the default (HTTP) branch
ClassifyHTTP(code) ==
    IF code >= 200 /\ code < 400 THEN "online"
    ELSE IF code >= 400 /\ code < 500 THEN "error"
    ELSE "offline"

\* the PING branch: dial the ports in order, stop at the first success
RECURSIVE PingLoop(_, _)
PingLoop(ports, k) ==
    IF k > Len(ports) THEN "offline"
    ELSE IF ports[k] THEN "online"
    ELSE PingLoop(ports, k + 1)

CheckService(svc, net) ==
    LET status == InitialStatus(svc) IN
    IF ~svc.IsActive THEN [status EXCEPT !.Status = "disabled"]
    ELSE IF svc.Method = "TCP" THEN
        [status EXCEPT !.Status = IF net.tcp THEN "online" ELSE "offline",
                       !.ResponseTime = net.ms]
    ELSE IF svc.Method = "PING" THEN
        [status EXCEPT !.Status = PingLoop(net.ports, 1),
                       !.ResponseTime = net.ms]
    ELSE IF ~svc.URLok THEN
        \* NewRequestWithContext fails for HEAD and again for GET
        [status EXCEPT !.Status = "error"]
    ELSE IF net.http = 0 THEN
        [status EXCEPT !.Status = "offline", !.ResponseTime = net.ms]
    ELSE
        [status EXCEPT !.Status = ClassifyHTTP(net.http),
                       !.StatusCode = net.http,
                       !.ResponseTime = net.ms]

(***************************************************************************)
(* pingDeviceFast, as the device batch sees it: true when some heuristic   *)
(* port accepted a connect, else the verdict of the ping utility.          *)
(***************************************************************************)
PingOutcomes ==
    { [open |-> TRUE,  icmp |-> FALSE],
      [open |-> FALSE, icmp |-> TRUE],
      [open |-> FALSE, icmp |-> FALSE] }

NoPing == [open |-> FALSE, icmp |-> FALSE]

PingVerdict(pr) == IF pr.open THEN TRUE ELSE pr.icmp

(***************************************************************************)
(* Containers.                                                             *)
(***************************************************************************)
\* the zero value of models.Container (make([]models.Container, n))
ZeroContainer == [ID |-> <<>>, State |-> "", Health |-> "", Stats |-> 0]

ConvertContainer(c) ==
    [ID |-> ShortID(c.ID), State |-> c.State,
     Health |-> IF c.State = "running" THEN "healthy" ELSE "",
     Stats |-> 0]

ZeroOf(k) == IF k = "services" THEN ZeroService ELSE ZeroContainer
NoOutcome(k) == IF k = "devices" THEN NoPing ELSE NoNet

(***************************************************************************)
(* The stats cache: getCachedStats and the sync.RWMutex guarding the map.  *)
(***************************************************************************)
CacheKeys ==
    { r.ID : r \in ContainerRows } \cup { ShortID(r.ID) : r \in ContainerRows }

\* what a map read of a missing key yields: the zero cachedStats, exists false
NoEntry == [exists |-> FALSE, stats |-> 0, timestamp |-> 0]

\* a freshness test that still accepts an entry of age TTL
FreshInclusive(entry, t) == entry.exists /\ t - entry.timestamp <= statsCacheTTL

\* exists && time.Since(cached.timestamp) < statsCacheTTL
Fresh(entry, t) == entry.exists /\ t - entry.timestamp < statsCacheTTL

\* RWMutex.RLock proceeds when no writer holds the lock and none is blocked in
\* Lock (a blocked Lock excludes new readers)
CanRLock == cacheWriter = NoCaller /\ \A d \in Callers : cpc[d] # "lock"

\* a write lock that does not wait for the readers
CanLockEarly == cacheWriter = NoCaller

\* RWMutex.Lock proceeds when nobody holds the lock
CanLock == cacheWriter = NoCaller /\ cacheReaders = {}

\* the samples a runtime stats read can deliver: 0 is the zero-value sample of
\* a failed read (runtime error, deadline, undecodable body)
RuntimeSamples == 0..MaxSample

\* s.cacheMutex.RLock()
CacheRLock(c) ==
    /\ cpc[c] = "rlock"
    /\ CanRLock
    /\ cacheReaders' = cacheReaders \cup {c}
    /\ cpc' = [cpc EXCEPT ![c] = "read"]
    /\ UNCHANGED <<connected, statsCache, failedAt, now, ckey, ccached, cstats, cread,
                   cacheWriter>>

\* cached, exists := s.statsCache[containerID]; s.cacheMutex.RUnlock()
CacheRead(c) ==
    /\ cpc[c] = "read"
    /\ ccached' = [ccached EXCEPT ![c] = statsCache[ckey[c]]]
    /\ cacheReaders' = cacheReaders \ {c}
    /\ cpc' = [cpc EXCEPT ![c] = "check"]
    /\ UNCHANGED <<connected, statsCache, failedAt, now, ckey, cstats, cread, cacheWriter>>

\* if exists && time.Since(cached.timestamp) < statsCacheTTL { return cached.stats }
CacheCheck(c) ==
    /\ cpc[c] = "check"
    /\ IF Fresh(ccached[c], now)
       THEN /\ cstats' = [cstats EXCEPT ![c] = ccached[c].stats]
            /\ cpc' = [cpc EXCEPT ![c] = "ret"]
       ELSE /\ cstats' = cstats
            /\ cpc' = [cpc EXCEPT ![c] = "fetch"]
    \* the local copy is not read again
    /\ ccached' = [ccached EXCEPT ![c] = NoEntry]
    /\ UNCHANGED <<connected, statsCache, failedAt, now, ckey, cread, cacheReaders,
                   cacheWriter>>

\* stats := s.getContainerStats(containerID)
CacheFetch(c) ==
    /\ cpc[c] = "fetch"
    /\ IF connected
       THEN \E v \in RuntimeSamples :
                /\ cstats' = [cstats EXCEPT ![c] = v]
                /\ cread' = [cread EXCEPT ![c] = TRUE]
       ELSE /\ cstats' = [cstats EXCEPT ![c] = 0]
            /\ cread' = cread
    /\ cpc' = [cpc EXCEPT ![c] = "lock"]
    /\ UNCHANGED <<connected, statsCache, failedAt, now, ckey, ccached, cacheReaders,
                   cacheWriter>>

\* s.cacheMutex.Lock()
CacheLock(c) ==
    /\ cpc[c] = "lock"
    /\ CanLock
    /\ cacheWriter' = c
    /\ cpc' = [cpc EXCEPT ![c] = "store"]
    /\ UNCHANGED <<connected, statsCache, failedAt, now, ckey, ccached, cstats, cread,
                   cacheReaders>>

\* a cache that keeps its entry when the read failed
StoreEntryUnlessFailed(cache, key, stats, t) ==
    IF stats = 0 THEN cache
    ELSE [cache EXCEPT ![key] = [exists |-> TRUE, stats |-> stats, timestamp |-> t]]

\* s.statsCache[containerID] = cachedStats{stats: stats, timestamp: time.Now()}
StoreEntry(cache, key, stats, t) ==
    [cache EXCEPT ![key] = [exists |-> TRUE, stats |-> stats, timestamp |-> t]]

\* s.statsCache[containerID] = cachedStats{stats, time.Now()}; Unlock()
CacheStore(c) ==
    /\ cpc[c] = "store"
    /\ statsCache' = StoreEntry(statsCache, ckey[c], cstats[c], now)
    /\ failedAt' = IF cstats[c] = 0 THEN [failedAt EXCEPT ![ckey[c]] = now]
                   ELSE failedAt
    /\ cacheWriter' = NoCaller
    /\ cpc' = [cpc EXCEPT ![c] = "ret"]
    /\ UNCHANGED <<connected, now, ckey, ccached, cstats, cread, cacheReaders>>

\* the steps of a getCachedStats call in progress
CacheStep(c) ==
    \/ CacheRLock(c)
    \/ CacheRead(c)
    \/ CacheCheck(c)
    \/ CacheFetch(c)
    \/ CacheLock(c)
    \/ CacheStore(c)

\* entering getCachedStats(key)
BeginCall(c, key) ==
    /\ cpc' = [cpc EXCEPT ![c] = "rlock"]
    /\ ckey' = [ckey EXCEPT ![c] = key]
    /\ cread' = [cread EXCEPT ![c] = FALSE]

InitCacheVars ==
    /\ statsCache = [k \in CacheKeys |-> NoEntry]
    /\ failedAt = [k \in CacheKeys |-> NoTime]
    /\ cpc = [c \in Callers |-> "idle"]
    /\ ckey = [c \in Callers |-> <<>>]
    /\ ccached = [c \in Callers |-> NoEntry]
    /\ cstats = [c \in Callers |-> 0]
    /\ cread = [c \in Callers |-> FALSE]
    /\ cacheReaders = {}
    /\ cacheWriter = NoCaller

(***************************************************************************)
(* The fan-out batch: GetServices, GetDevicesWithPing, GetContainers.      *)
(***************************************************************************)
\* the device table of the relational store (is_online, last_seen columns)
DeviceTable ==
    [id \in { r.ID : r \in DeviceRows } |->
        LET r == CHOOSE x \in DeviceRows : x.ID = id
        IN  [is_online |-> r.IsOnline, last_seen |-> r.LastSeen]]

\* Updates(map{"is_online": true, "last_seen": now}) on the device's row
PersistOnline(table, id, t) ==
    [table EXCEPT ![id] = [is_online |-> TRUE, last_seen |-> t]]

\* an offline update that is not issued
PersistOfflineSkipped(table, id) == table

\* an offline update that also clears last_seen
PersistOfflineCleared(table, id) ==
    [table EXCEPT ![id] = [is_online |-> FALSE, last_seen |-> NoTime]]

\* Update("is_online", false) on the device's row
PersistOffline(table, id) == [table EXCEPT ![id].is_online = FALSE]

\* the update statements, as the store receives them
OnlineUpdate(id) == [id |-> id, is_online |-> TRUE, last_seen |-> TRUE]

OfflineUpdate(id) == [id |-> id, is_online |-> FALSE, last_seen |-> FALSE]

\* a batch that waits for the first worker only (a race instead of a join)
WaitRace == N = 0 \/ \E i \in 1..N : wpc[i] = "done"

\* wg.Wait() returns when the counter is zero
WaitReady == wg = 0

\* a worker that appends its result in arrival order
SlotByArrival(idx) == Len(completed) + 1

\* the slot a worker writes: result[idx]
SlotOf(idx) == idx

\* a worker that leaves the slot of a failed probe unwritten
StoreUnlessFailed(res, idx, val) ==
    IF "Status" \in DOMAIN val /\ val.Status = "offline"
    THEN res
    ELSE [res EXCEPT ![idx] = val]

\* result[idx] = status / result[idx] = container
StoreResult(res, idx, val) == [res EXCEPT ![idx] = val]

\* devices[idx].IsOnline = s.pingDeviceFast(devices[idx].IP)
SetOnline(res, idx, v) == [res EXCEPT ![idx].IsOnline = v]

\* the store query (or ContainerList) succeeds: the result slice is sized
QueryOK ==
    /\ mainpc = "start"
    /\ kind = "containers" => connected
    /\ result' = IF kind = "devices" THEN targets
                 ELSE [i \in 1..N |-> ZeroOf(kind)]
    /\ mainpc' = "spawn"
    /\ UNCHANGED <<otherVars, kind, targets, spawned, wg, wpc, wlocal, outcome,
                   completed, db, dbops, cacheVars>>

\* the store query fails (nil, err); GetContainers without a client or with a
\* failing ContainerList returns an empty slice
QueryFail ==
    /\ mainpc = "start"
    /\ result' = <<>>
    /\ mainpc' = "failed"
    /\ UNCHANGED <<otherVars, kind, targets, spawned, wg, wpc, wlocal, outcome,
                   completed, db, dbops, cacheVars>>

\* wg.Add(1); go func(idx ...) {...}(i ...)
Spawn ==
    /\ mainpc = "spawn"
    /\ spawned < N
    /\ spawned' = spawned + 1
    /\ wg' = wg + 1
    /\ wpc' = [wpc EXCEPT ![spawned + 1] = "run"]
    /\ UNCHANGED <<otherVars, kind, targets, mainpc, wlocal, result, outcome,
                   completed, db, dbops, cacheVars>>

\* the for loop ends; the caller reaches wg.Wait()
SpawnDone ==
    /\ mainpc = "spawn"
    /\ spawned = N
    /\ mainpc' = "wait"
    /\ UNCHANGED <<otherVars, kind, targets, spawned, wg, wpc, wlocal, result,
                   outcome, completed, db, dbops, cacheVars>>

\* wg.Wait(); return result, nil
WaitReturn ==
    /\ mainpc = "wait"
    /\ WaitReady
    /\ mainpc' = "returned"
    /\ UNCHANGED <<otherVars, kind, targets, spawned, wg, wpc, wlocal, result,
                   outcome, completed, db, dbops, cacheVars>>

\* GetServices worker: status := s.checkService(service)
SvcCheck(i) ==
    /\ kind = "services"
    /\ wpc[i] = "run"
    /\ \E net \in NetOutcomes(targets[i]) :
        /\ wlocal' = [wlocal EXCEPT ![i] = CheckService(targets[i], net)]
        /\ outcome' = [outcome EXCEPT ![i] = net]
    /\ wpc' = [wpc EXCEPT ![i] = "write"]
    /\ UNCHANGED <<otherVars, kind, targets, mainpc, spawned, wg, result, completed,
                   db, dbops, cacheVars>>

\* GetContainers worker: container := s.convertContainer(ctr), and for a
\* running container the call of getCachedStats(ctr.ID)
CtrConvert(i) ==
    /\ kind = "containers"
    /\ wpc[i] = "run"
    /\ wlocal' = [wlocal EXCEPT ![i] = ConvertContainer(targets[i])]
    /\ IF targets[i].State = "running"
       THEN /\ wpc' = [wpc EXCEPT ![i] = "stats"]
            /\ BeginCall(i, targets[i].ID)
       ELSE /\ wpc' = [wpc EXCEPT ![i] = "write"]
            /\ UNCHANGED <<cpc, ckey, cread>>
    /\ UNCHANGED <<otherVars, kind, targets, mainpc, spawned, wg, result, outcome,
                   completed, db, dbops, connected, statsCache, failedAt, now, ccached, cstats,
                   cacheReaders, cacheWriter>>

\* GetContainers worker: container.Stats = <value getCachedStats returned>
CtrStats(i) ==
    /\ kind = "containers"
    /\ wpc[i] = "stats"
    /\ cpc[i] = "ret"
    /\ wlocal' = [wlocal EXCEPT ![i].Stats = cstats[i]]
    /\ cpc' = [cpc EXCEPT ![i] = "idle"]
    /\ wpc' = [wpc EXCEPT ![i] = "write"]
    /\ UNCHANGED <<otherVars, kind, targets, mainpc, spawned, wg, result, outcome,
                   completed, db, dbops, connected, statsCache, failedAt, now, ckey, ccached,
                   cstats, cread, cacheReaders, cacheWriter>>

\* the getCachedStats call of a GetContainers worker advances
CtrCacheStep(i) ==
    /\ kind = "containers"
    /\ wpc[i] = "stats"
    /\ CacheStep(i)
    /\ UNCHANGED <<otherVars, batchVars>>

\* result[idx] = status / result[idx] = container
WriteSlot(i) ==
    /\ kind \in {"services", "containers"}
    /\ wpc[i] = "write"
    /\ SlotOf(i) \in 1..Len(result)
    /\ result' = StoreResult(result, SlotOf(i), wlocal[i])
    /\ completed' = Append(completed, i)
    /\ wpc' = [wpc EXCEPT ![i] = "exit"]
    /\ UNCHANGED <<otherVars, kind, targets, mainpc, spawned, wg, wlocal, outcome,
                   db, dbops, cacheVars>>

\* GetDevicesWithPing worker: devices[idx].IsOnline = s.pingDeviceFast(...)
DevPing(i) ==
    /\ kind = "devices"
    /\ wpc[i] = "run"
    /\ SlotOf(i) \in 1..Len(result)
    /\ \E pr \in PingOutcomes :
        /\ result' = SetOnline(result, SlotOf(i), PingVerdict(pr))
        /\ outcome' = [outcome EXCEPT ![i] = pr]
    /\ completed' = Append(completed, i)
    /\ wpc' = [wpc EXCEPT ![i] = "persist"]
    /\ UNCHANGED <<otherVars, kind, targets, mainpc, spawned, wg, wlocal, db, dbops,
                   cacheVars>>

\* GetDevicesWithPing worker: LastSeen and the update of the device's row
DevPersist(i) ==
    /\ kind = "devices"
    /\ wpc[i] = "persist"
    /\ IF result[i].IsOnline
       THEN /\ result' = [result EXCEPT ![i].LastSeen = now]
            /\ db' = PersistOnline(db, result[i].ID, now)
            /\ dbops' = dbops \cup {OnlineUpdate(result[i].ID)}
       ELSE /\ result' = result
            /\ db' = PersistOffline(db, result[i].ID)
            /\ dbops' = dbops \cup {OfflineUpdate(result[i].ID)}
    /\ wpc' = [wpc EXCEPT ![i] = "exit"]
    /\ UNCHANGED <<otherVars, kind, targets, mainpc, spawned, wg, wlocal, outcome,
                   completed, cacheVars>>

\* defer wg.Done()
WorkerDone(i) ==
    /\ wpc[i] = "exit"
    /\ wg' = wg - 1
    /\ wpc' = [wpc EXCEPT ![i] = "done"]
    /\ UNCHANGED <<otherVars, kind, targets, mainpc, spawned, wlocal, result,
                   outcome, completed, db, dbops, cacheVars>>

(***************************************************************************)
(* The stats cache under single-container lookups (GetContainer) while the *)
(* clock advances.                                                         *)
(***************************************************************************)
\* the id GET /containers/:id is called with: the short id the API hands out
\* for a running container
LookupKeys == { ShortID(FullID(1)) }

\* GetContainer(id) of a running container: container.Stats = getCachedStats(id)
LookupCall(c) ==
    /\ scen \in {"cache", "locks"}
    /\ cpc[c] = "idle"
    /\ connected
    /\ \E key \in LookupKeys : BeginCall(c, key)
    /\ UNCHANGED <<otherVars, batchVars, connected, statsCache, failedAt, now, ccached, cstats,
                   cacheReaders, cacheWriter>>

\* the getCachedStats call of a lookup advances
LookupCacheStep(c) ==
    /\ scen \in {"cache", "locks"}
    /\ CacheStep(c)
    /\ UNCHANGED <<otherVars, batchVars>>

\* getCachedStats returns; GetContainer hands the container to its caller
LookupReturn(c) ==
    /\ scen \in {"cache", "locks"}
    /\ cpc[c] = "ret"
    /\ cpc' = [cpc EXCEPT ![c] = "idle"]
    /\ cstats' = [cstats EXCEPT ![c] = 0]
    /\ cread' = [cread EXCEPT ![c] = FALSE]
    /\ UNCHANGED <<otherVars, batchVars, connected, statsCache, failedAt, now, ckey, ccached,
                   cacheReaders, cacheWriter>>

\* a second of wall-clock time passes
Tick ==
    /\ scen = "cache"
    /\ now < MaxTime
    /\ now' = now + 1
    /\ UNCHANGED <<otherVars, batchVars, connected, statsCache, failedAt, cpc, ckey, ccached,
                   cstats, cread, cacheReaders, cacheWriter>>

(***************************************************************************)
(* The metrics history: collectHistoryBackground and GetMetricsHistory.    *)
(***************************************************************************)
\* goroutines serving GET /metrics/history
Readers == {201}

\* the limit query parameter: absent, not a number, or a number
Queries ==
    { [given |-> FALSE, numeric |-> FALSE, n |-> 0],
      [given |-> TRUE,  numeric |-> FALSE, n |-> 0] }
    \cup { [given |-> TRUE, numeric |-> TRUE, n |-> v] : v \in {0 - 1, 0, 2, 101} }

\* MetricsHandler.GetMetricsHistory: DefaultQuery("limit", "50"), strconv.Atoi
HandlerLimit(q) ==
    IF q.given /\ q.numeric THEN q.n ELSE DefaultLimit

\* a sampler that evicts as soon as the buffer is full
AppendPointEarly(h, p) ==
    LET a == Append(h, p) IN IF Len(a) >= maxHistory THEN Tail(a) ELSE a

\* s.history = append(s.history, history); if len > maxHistory { s.history[1:] }
AppendPoint(h, p) ==
    LET a == Append(h, p) IN IF Len(a) > maxHistory THEN Tail(a) ELSE a

\* an accessor that copies from the front of the buffer
FirstN(h, limit) ==
    LET l == IF limit <= 0 \/ limit > Len(h) THEN Len(h) ELSE limit
    IN  SubSeq(h, 1, l)

\* GetMetricsHistory: limit clamp, start := len - limit, make and copy
LastN(h, limit) ==
    LET l == IF limit <= 0 \/ limit > Len(h) THEN Len(h) ELSE limit
        start == Len(h) - l
    IN  [i \in 1..l |-> h[start + i]]

\* a read lock that lets readers pass a blocked writer
CanRLockHistoryNoQueue == ~hWriter

\* s.mu.RLock(): no writer holds the lock and the sampler is not blocked in Lock
CanRLockHistory == ~hWriter /\ spc # "lock"

\* s.mu.Lock(): nobody holds the lock
CanLockHistory == ~hWriter /\ hReaders = {}

\* <-ticker.C
SamplerTick ==
    /\ scen = "history"
    /\ spc = "wait"
    /\ spc' = "collect"
    /\ UNCHANGED <<scen, dockVars, batchVars, cacheVars, statVars, devVars, fastVars,
                   pingVars, checkVars,
                   history, spoint, nsampled,
                   hReaders, hWriter, rpc, rlimit, rresult>>

\* GetSystemMetrics fails: continue
SamplerSkip ==
    /\ scen = "history"
    /\ spc = "collect"
    /\ spc' = "wait"
    /\ UNCHANGED <<scen, dockVars, batchVars, cacheVars, statVars, devVars, fastVars,
                   pingVars, checkVars,
                   history, spoint, nsampled,
                   hReaders, hWriter, rpc, rlimit, rresult>>

\* GetSystemMetrics succeeds: the point is built; the sampler calls s.mu.Lock()
SamplerBuild ==
    /\ scen = "history"
    /\ spc = "collect"
    /\ nsampled < MaxAppends
    /\ nsampled' = nsampled + 1
    /\ spoint' = nsampled + 1
    /\ spc' = "lock"
    /\ UNCHANGED <<scen, dockVars, batchVars, cacheVars, statVars, devVars, fastVars,
                   pingVars, checkVars,
                   history, hReaders, hWriter, rpc,
                   rlimit, rresult>>

\* s.mu.Lock() returns
SamplerLock ==
    /\ scen = "history"
    /\ spc = "lock"
    /\ CanLockHistory
    /\ hWriter' = TRUE
    /\ spc' = "append"
    /\ UNCHANGED <<scen, dockVars, batchVars, cacheVars, statVars, devVars, fastVars,
                   pingVars, checkVars,
                   history, spoint, nsampled,
                   hReaders, rpc, rlimit, rresult>>

\* append, evict, s.mu.Unlock()
SamplerAppend ==
    /\ scen = "history"
    /\ spc = "append"
    /\ history' = AppendPoint(history, spoint)
    /\ spoint' = 0
    /\ hWriter' = FALSE
    /\ spc' = "wait"
    /\ UNCHANGED <<scen, dockVars, batchVars, cacheVars, statVars, devVars, fastVars,
                   pingVars, checkVars,
                   nsampled, hReaders, rpc, rlimit,
                   rresult>>

\* the handler parses limit and calls GetMetricsHistory(limit)
HistoryRequest(r) ==
    /\ scen = "history"
    /\ rpc[r] = "idle"
    /\ \E q \in Queries : rlimit' = [rlimit EXCEPT ![r] = HandlerLimit(q)]
    /\ rpc' = [rpc EXCEPT ![r] = "rlock"]
    /\ UNCHANGED <<scen, dockVars, batchVars, cacheVars, statVars, devVars, fastVars,
                   pingVars, checkVars,
                   history, spc, spoint, nsampled,
                   hReaders, hWriter, rresult>>

\* s.mu.RLock() returns
HistoryRLock(r) ==
    /\ scen = "history"
    /\ rpc[r] = "rlock"
    /\ CanRLockHistory
    /\ hReaders' = hReaders \cup {r}
    /\ rpc' = [rpc EXCEPT ![r] = "copy"]
    /\ UNCHANGED <<scen, dockVars, batchVars, cacheVars, statVars, devVars, fastVars,
                   pingVars, checkVars,
                   history, spc, spoint, nsampled,
                   hWriter, rlimit, rresult>>

\* the copy, the deferred s.mu.RUnlock(), return result
HistoryCopy(r) ==
    /\ scen = "history"
    /\ rpc[r] = "copy"
    /\ rresult' = [rresult EXCEPT ![r] = LastN(history, rlimit[r])]
    /\ hReaders' = hReaders \ {r}
    /\ rpc' = [rpc EXCEPT ![r] = "returned"]
    /\ UNCHANGED <<scen, dockVars, batchVars, cacheVars, statVars, devVars, fastVars,
                   pingVars, checkVars,
                   history, spc, spoint, nsampled,
                   hWriter, rlimit>>

\* c.JSON(http.StatusOK, history): the handler is done with the slice
HistoryRespond(r) ==
    /\ scen = "history"
    /\ rpc[r] = "returned"
    /\ rresult' = [rresult EXCEPT ![r] = <<>>]
    /\ rlimit' = [rlimit EXCEPT ![r] = 0]
    /\ rpc' = [rpc EXCEPT ![r] = "idle"]
    /\ UNCHANGED <<scen, dockVars, batchVars, cacheVars, statVars, devVars, fastVars,
                   pingVars, checkVars,
                   history, spc, spoint, nsampled,
                   hReaders, hWriter>>

(***************************************************************************)
(* pingDeviceFast: one dial per heuristic port, first success wins, the    *)
(* ping utility when every dial failed.                                    *)
(***************************************************************************)
\* len(ports)
NumPorts == 14

\* how cmd.Run() of the ping utility can end: not started (no such binary),
\* or started and exited with a code
PingRuns ==
    { [started |-> FALSE, exit |-> 0] }
    \cup { [started |-> TRUE, exit |-> e] : e \in {0, 1, 2} }

\* icmpPing was not called
NoRun == [started |-> FALSE, exit |-> 0 - 1]

\* a verdict that takes every started ping for a reachable host
IcmpPingStarted(run) == run.started

\* icmpPing: err := cmd.Run(); return err == nil
IcmpPing(run) == run.started /\ run.exit = 0

\* a receive loop that drains every result before it answers
AfterReceiveDrain(v, i) ==
    IF i + 1 < NumPorts THEN "loop" ELSE IF v THEN "returned" ELSE "icmp"

\* if <-result { return true }; i++; after len(ports) receives the loop ends
AfterReceive(v, i) ==
    IF v THEN "returned" ELSE IF i + 1 < NumPorts THEN "loop" ELSE "icmp"

\* a channel that holds one result
CanSendOne(ch) == Len(ch) < 1

\* result := make(chan bool, len(ports)): a send proceeds while the buffer
\* has room
CanSend(ch) == Len(ch) < NumPorts

\* go func(p string) {...}(port), for each port in turn
PingSpawn ==
    /\ scen = "ping"
    /\ pingpc = "spawn"
    /\ launched < NumPorts
    /\ launched' = launched + 1
    /\ dialing' = dialing + 1
    /\ pingpc' = IF launched + 1 = NumPorts THEN "loop" ELSE "spawn"
    /\ UNCHANGED <<scen, dockVars, batchVars, cacheVars, statVars, devVars, fastVars,
                   histVars, checkVars,
                   resultCh, pingI,
                   pingReturn, icmpRun, accepted, refused>>

\* DialTimeout returned a connection: conn.Close(); result <- true
DialAccept ==
    /\ scen = "ping"
    /\ dialing > 0
    /\ CanSend(resultCh)
    /\ dialing' = dialing - 1
    /\ accepted' = accepted + 1
    /\ resultCh' = Append(resultCh, TRUE)
    /\ UNCHANGED <<scen, dockVars, batchVars, cacheVars, statVars, devVars, fastVars,
                   histVars, checkVars,
                   pingpc, launched, pingI,
                   pingReturn, icmpRun, refused>>

\* DialTimeout returned an error: result <- false
DialRefuse ==
    /\ scen = "ping"
    /\ dialing > 0
    /\ CanSend(resultCh)
    /\ dialing' = dialing - 1
    /\ refused' = refused + 1
    /\ resultCh' = Append(resultCh, FALSE)
    /\ UNCHANGED <<scen, dockVars, batchVars, cacheVars, statVars, devVars, fastVars,
                   histVars, checkVars,
                   pingpc, launched, pingI,
                   pingReturn, icmpRun, accepted>>

\* one iteration of: for i := 0; i < len(ports); i++ { if <-result { return true } }
PingReceive ==
    /\ scen = "ping"
    /\ pingpc = "loop"
    /\ resultCh # <<>>
    /\ resultCh' = Tail(resultCh)
    /\ pingpc' = AfterReceive(Head(resultCh), pingI)
    /\ pingI' = pingI + 1
    /\ pingReturn' = (AfterReceive(Head(resultCh), pingI) = "returned")
    /\ UNCHANGED <<scen, dockVars, batchVars, cacheVars, statVars, devVars, fastVars,
                   histVars, checkVars,
                   launched, dialing,
                   icmpRun, accepted, refused>>

\* return s.icmpPing(ip)
PingIcmp ==
    /\ scen = "ping"
    /\ pingpc = "icmp"
    /\ \E run \in PingRuns :
        /\ icmpRun' = run
        /\ pingReturn' = IcmpPing(run)
    /\ pingpc' = "returned"
    /\ UNCHANGED <<scen, dockVars, batchVars, cacheVars, statVars, devVars, fastVars,
                   histVars, checkVars,
                   launched, dialing,
                   resultCh, pingI, accepted, refused>>

(***************************************************************************)
(* The single-target service check: GetService and CheckServiceHealth look *)
(* the row up in the caller's owner scope and run checkService on it,      *)
(* step by step, with every network operation it issues logged.            *)
(***************************************************************************)
\* Method values a row can carry: the declared GET, POST, TCP, PING, and the
\* empty string of a row written without one
Methods == {"GET", "POST", "TCP", "PING", ""}

\* user ids of the owner scopes
Users == {1, 2}

\* ids a caller can ask for
ServiceIDs == {1, 2}

\* the services row of the store: URLok tells whether URL parses as a request
\* target, Port is svc.Port
CheckRows ==
    [ID : {1}, UserID : Users, IsActive : BOOLEAN, Method : Methods,
     URLok : BOOLEAN, Port : {0, 8080}]

\* status codes a response can carry
StatusCodes == {100, 199, 200, 301, 399, 400, 404, 499, 500, 503}

\* Where("id = ? AND user_id = ?", id, userID).First(&svc) finds the row
Found(row, args) == row.ID = args.id /\ row.UserID = args.userID

\* a guard that skips the network for inactive HTTP targets only
DisabledHTTPOnly(svc) == ~svc.IsActive /\ svc.Method \notin {"TCP", "PING"}

\* if !svc.IsActive
Disabled(svc) == ~svc.IsActive

\* switch svc.Method: case "TCP", case "PING", default
Branch(svc) ==
    IF svc.Method = "TCP" THEN "tcp"
    ELSE IF svc.Method = "PING" THEN "ping"
    ELSE "head"

\* a network operation takes 0..MaxLatency milliseconds
Latencies == 0..MaxLatency

\* err == nil of net.DialTimeout: a connect can succeed only to an address
\* that is well formed
DialResults(svc) == IF svc.URLok THEN BOOLEAN ELSE {FALSE}

\* a loop over the ports that goes on after a connect
PingDoneExhausted(ok, i) == i = Len(PingPorts)

\* the PING loop ends at the break of a successful connect or after the last
\* port
PingDone(ok, i) == ok \/ i = Len(PingPorts)

\* the First(&svc) of GetService / CheckServiceHealth
CheckLookup ==
    /\ scen = "check"
    /\ hpc = "lookup"
    /\ \E id \in ServiceIDs, u \in Users :
        LET args == [id |-> id, userID |-> u] IN
        /\ hargs' = args
        /\ IF Found(hrow, args)
           THEN /\ hpc' = "enter"
                /\ herr' = herr
           ELSE /\ hpc' = "returned"
                /\ herr' = "service not found"
    /\ UNCHANGED <<scen, dockVars, batchVars, cacheVars, statVars, devVars, fastVars,
                   histVars, pingVars, hrow, hstatus,
                   hreq, hport, netlog, hclock, hstart>>

\* status := ServiceStatus{...}; if !svc.IsActive {...; return}; start := time.Now()
CheckEnter ==
    /\ scen = "check"
    /\ hpc = "enter"
    /\ IF Disabled(hrow)
       THEN /\ hstatus' = [InitialStatus(hrow) EXCEPT !.Status = "disabled"]
            /\ hpc' = "returned"
       ELSE /\ hstatus' = InitialStatus(hrow)
            /\ hpc' = Branch(hrow)
    /\ hstart' = hclock
    /\ hport' = 1
    /\ UNCHANGED <<scen, dockVars, batchVars, cacheVars, statVars, devVars, fastVars,
                   histVars, pingVars, hrow, hargs,
                   hreq, netlog, hclock, herr>>

\* case "TCP": net.DialTimeout("tcp", host, 1*time.Second)
CheckTCP ==
    /\ scen = "check"
    /\ hpc = "tcp"
    /\ \E ok \in DialResults(hrow), d \in Latencies :
        /\ netlog' = Append(netlog, [op |-> "dial", what |-> hrow.Port, code |-> 0,
                                     ok |-> ok])
        /\ hstatus' = IF ok THEN [hstatus EXCEPT !.Status = "online"] ELSE hstatus
        /\ hclock' = hclock + d
    /\ hpc' = "finish"
    /\ UNCHANGED <<scen, dockVars, batchVars, cacheVars, statVars, devVars, fastVars,
                   histVars, pingVars, hrow, hargs,
                   hreq, hport, hstart, herr>>

\* case "PING": one pass of the loop over ports, break at the first connect
CheckPING ==
    /\ scen = "check"
    /\ hpc = "ping"
    /\ \E ok \in DialResults(hrow), d \in Latencies :
        /\ netlog' = Append(netlog,
                            [op |-> "dial", what |-> PingPorts[hport], code |-> 0,
                             ok |-> ok])
        /\ hstatus' = IF ok THEN [hstatus EXCEPT !.Status = "online"] ELSE hstatus
        /\ hclock' = hclock + d
        /\ hpc' = IF PingDone(ok, hport) THEN "finish" ELSE "ping"
    /\ hport' = hport + 1
    /\ UNCHANGED <<scen, dockVars, batchVars, cacheVars, statVars, devVars, fastVars,
                   histVars, pingVars, hrow, hargs,
                   hreq, hstart, herr>>

\* req, err := http.NewRequestWithContext(ctx, "HEAD", svc.URL, nil)
CheckBuildHEAD ==
    /\ scen = "check"
    /\ hpc = "head"
    /\ IF hrow.URLok
       THEN hreq' = "HEAD" /\ hpc' = "do"
       ELSE hreq' = hreq /\ hpc' = "get"
    /\ \E d \in Latencies : hclock' = hclock + d
    /\ UNCHANGED <<scen, dockVars, batchVars, cacheVars, statVars, devVars, fastVars,
                   histVars, pingVars, hrow, hargs,
                   hstatus, hport, netlog, hstart, herr>>

\* req, err = http.NewRequestWithContext(ctx, "GET", svc.URL, nil) after the
\* HEAD request could not be built; on error: status "error", return
CheckBuildGET ==
    /\ scen = "check"
    /\ hpc = "get"
    /\ IF hrow.URLok
       THEN hreq' = "GET" /\ hpc' = "do" /\ hstatus' = hstatus
       ELSE /\ hreq' = hreq
            /\ hpc' = "returned"
            /\ hstatus' = [hstatus EXCEPT !.Status = "error"]
    /\ \E d \in Latencies : hclock' = hclock + d
    /\ UNCHANGED <<scen, dockVars, batchVars, cacheVars, statVars, devVars, fastVars,
                   histVars, pingVars, hrow, hargs,
                   hport, netlog, hstart, herr>>

\* resp, err := s.httpClient.Do(req): no response
CheckDoFail ==
    /\ scen = "check"
    /\ hpc = "do"
    /\ \E d \in Latencies : hclock' = hclock + d
    /\ netlog' = Append(netlog, [op |-> "http", what |-> hreq, code |-> 0,
                                 ok |-> FALSE])
    /\ hstatus' = [hstatus EXCEPT !.Status = "offline"]
    /\ hpc' = "finish"
    /\ UNCHANGED <<scen, dockVars, batchVars, cacheVars, statVars, devVars, fastVars,
                   histVars, pingVars, hrow, hargs,
                   hreq, hport, hstart, herr>>

\* resp, err := s.httpClient.Do(req): a response with a status code
CheckDoResponse ==
    /\ scen = "check"
    /\ hpc = "do"
    /\ \E code \in StatusCodes, d \in Latencies :
        /\ hclock' = hclock + d
        /\ netlog' = Append(netlog, [op |-> "http", what |-> hreq, code |-> code,
                                     ok |-> TRUE])
        /\ hstatus' = [hstatus EXCEPT !.StatusCode = code,
                                      !.Status = ClassifyHTTP(code)]
    /\ hpc' = "finish"
    /\ UNCHANGED <<scen, dockVars, batchVars, cacheVars, statVars, devVars, fastVars,
                   histVars, pingVars, hrow, hargs,
                   hreq, hport, hstart, herr>>

\* status.ResponseTime = time.Since(start).Milliseconds(); return status
CheckFinish ==
    /\ scen = "check"
    /\ hpc = "finish"
    /\ hstatus' = [hstatus EXCEPT !.ResponseTime = hclock - hstart]
    /\ hpc' = "returned"
    /\ UNCHANGED <<scen, dockVars, batchVars, cacheVars, statVars, devVars, fastVars,
                   histVars, pingVars, hrow, hargs,
                   hreq, hport, netlog, hclock, hstart, herr>>

(***************************************************************************)
(* The arithmetic of getContainerStats: calculateCPUPercent and the memory *)
(* percentage.  float64 values are kept as exact fractions.                *)
(***************************************************************************)
\* a cumulative unsigned counter
Counters == 0..(CounterMod - 1)

\* unsigned subtraction: a - b wraps around when b > a
USub(a, b) == (a - b + CounterMod) % CounterMod

\* a float64 as the fraction num/den
Frac(n, d) == [num |-> n, den |-> d]

\* 0.0
Zero == Frac(0, 1)

\* the fields of types.StatsJSON that do not vary in a sample
QuietCPU ==
    [TotalUsage |-> 0, PreTotalUsage |-> 0, SystemUsage |-> 0,
     PreSystemUsage |-> 0, OnlineCPUs |-> 0, PercpuLen |-> 0]

QuietMemory == [Usage |-> 0, Limit |-> 0, CacheReported |-> FALSE, Cache |-> 0]

\* decoded records whose CPU fields vary
CPUSamples ==
    { [cpu |-> c, mem |-> QuietMemory] :
        c \in [TotalUsage : Counters, PreTotalUsage : Counters,
               SystemUsage : Counters, PreSystemUsage : Counters,
               OnlineCPUs : {0, 2}, PercpuLen : {0, 3}] }

\* decoded records whose memory fields vary
MemorySamples ==
    { [cpu |-> QuietCPU, mem |-> m] :
        m \in [Usage : Counters, Limit : Counters, CacheReported : BOOLEAN,
               Cache : Counters] }

\* cpuDelta, systemDelta: float64(cur - pre) on uint64 operands
Delta(cur, pre) == USub(cur, pre)

\* a CPU count without the fallbacks
NumCPUsOnlineOnly(c) == c.OnlineCPUs

\* numCPUs: OnlineCPUs, else len(PercpuUsage), else 1
NumCPUs(c) ==
    IF c.OnlineCPUs # 0 THEN c.OnlineCPUs
    ELSE IF c.PercpuLen # 0 THEN c.PercpuLen
    ELSE 1

\* calculateCPUPercent
CalculateCPUPercent(c) ==
    LET cpuDelta == Delta(c.TotalUsage, c.PreTotalUsage)
        systemDelta == Delta(c.SystemUsage, c.PreSystemUsage)
    IN  IF systemDelta > 0 /\ cpuDelta > 0
        THEN Frac(cpuDelta * NumCPUs(c) * 100, systemDelta)
        ELSE Zero

\* memoryUsage after: if cache, ok := Stats["cache"]; ok { memoryUsage -= cache }
MemoryUsed(m) == IF m.CacheReported THEN USub(m.Usage, m.Cache) ELSE m.Usage

\* memoryPercent
MemoryPercent(m) ==
    IF m.Limit > 0 THEN Frac(MemoryUsed(m) * 100, m.Limit) ELSE Zero

\* cpuPercent := calculateCPUPercent(&statsJSON)
StatsCPU ==
    /\ scen = "stats"
    /\ tpc = "cpu"
    /\ cpuPercent' = CalculateCPUPercent(statsJSON.cpu)
    /\ tpc' = "memory"
    /\ UNCHANGED <<scen, dockVars, batchVars, cacheVars, histVars, pingVars, checkVars,
                   devVars, fastVars, statsJSON, memoryPercent>>

\* memoryPercent := ... / float64(memoryLimit) * 100.0
StatsMemory ==
    /\ scen = "stats"
    /\ tpc = "memory"
    /\ memoryPercent' = MemoryPercent(statsJSON.mem)
    /\ tpc' = "build"
    /\ UNCHANGED <<scen, dockVars, batchVars, cacheVars, histVars, pingVars, checkVars,
                   devVars, fastVars, statsJSON, cpuPercent>>

\* return models.ContainerStats{CPUPercent: cpuPercent, ...}
StatsReturn ==
    /\ scen = "stats"
    /\ tpc = "build"
    /\ tpc' = "returned"
    /\ UNCHANGED <<scen, dockVars, batchVars, cacheVars, histVars, pingVars, checkVars,
                   devVars, fastVars, statsJSON, cpuPercent, memoryPercent>>

(***************************************************************************)
(* PingDevice: the probe of one device, looked up in the caller's owner    *)
(* scope.                                                                  *)
(***************************************************************************)
\* user_id of each devices row
DeviceOwner == [id \in DOMAIN DeviceTable |-> IF id = 4 THEN 2 ELSE 1]

\* ids a caller can ask for: the stored ones and one that is not stored
DeviceIDs == DOMAIN DeviceTable \cup {9}

\* a lookup by id alone
DeviceFoundAnyOwner(args) == args.id \in DOMAIN DeviceTable

\* Where("id = ? AND user_id = ?", id, userID).First(&device) finds the row
DeviceFound(args) == args.id \in DOMAIN DeviceTable /\ DeviceOwner[args.id] = args.userID

\* First(&device) in the owner scope; on error: return false, "device not found"
PingDeviceLookup ==
    /\ scen = "pingdev"
    /\ dpc = "lookup"
    /\ \E id \in DeviceIDs, u \in Users :
        LET args == [id |-> id, userID |-> u] IN
        /\ dargs' = args
        /\ IF DeviceFound(args)
           THEN dpc' = "ping" /\ derr' = derr
           ELSE dpc' = "returned" /\ derr' = "device not found"
    /\ UNCHANGED <<scen, dockVars, batchVars, cacheVars, histVars, pingVars, checkVars,
                   statVars, fastVars, isOnline, dprobed>>

\* isOnline := s.pingDeviceFast(device.IP)
PingDevicePing ==
    /\ scen = "pingdev"
    /\ dpc = "ping"
    /\ \E pr \in PingOutcomes : isOnline' = PingVerdict(pr)
    /\ dprobed' = TRUE
    /\ dpc' = "persist"
    /\ UNCHANGED <<scen, dockVars, batchVars, cacheVars, histVars, pingVars, checkVars,
                   statVars, fastVars, dargs, derr>>

\* the update of the device's row; return isOnline, nil
PingDevicePersist ==
    /\ scen = "pingdev"
    /\ dpc = "persist"
    /\ IF isOnline
       THEN /\ db' = PersistOnline(db, dargs.id, now)
            /\ dbops' = dbops \cup {OnlineUpdate(dargs.id)}
       ELSE /\ db' = PersistOffline(db, dargs.id)
            /\ dbops' = dbops \cup {OfflineUpdate(dargs.id)}
    /\ dpc' = "returned"
    /\ UNCHANGED <<scen, dockVars, batchRest, cacheVars, fastVars, histVars, pingVars, checkVars,
                   statVars, dargs, isOnline, dprobed, derr>>

(***************************************************************************)
(* The fast path: GetDevices and GetServicesBasic read the store and       *)
(* return, twice in a row, while another request may write to the store.   *)
(***************************************************************************)
\* number of fast-path calls a behaviour makes
FastCalls == 2

\* GetDevices: the rows as the store holds them now
GetDevices(rows, table) ==
    [i \in 1..Len(rows) |->
        [rows[i] EXCEPT !.IsOnline = table[rows[i].ID].is_online,
                        !.LastSeen = table[rows[i].ID].last_seen]]

\* GetServicesBasic: a ServiceStatus per row with Status "unknown"
GetServicesBasic(rows) ==
    [i \in 1..Len(rows) |->
        [ID |-> rows[i].ID, Status |-> "unknown", StatusCode |-> 0,
         ResponseTime |-> 0, IsActive |-> rows[i].IsActive]]

\* a fast path that marks the devices it lists offline
FastUpdatesOffline(k, rows) ==
    IF k = "devices" THEN { OfflineUpdate(rows[i].ID) : i \in 1..Len(rows) } ELSE {}

\* the update statements a fast-path call issues: none
FastUpdates(k, rows) == {}

\* the network probes a fast-path call issues: none
FastProbes(k, rows) == 0

\* the call's query succeeds and the call returns its result
FastCallOK ==
    /\ scen = "fast"
    /\ Len(fresults) < FastCalls
    /\ fresults' = Append(fresults,
                          [ok |-> TRUE,
                           rows |-> IF fkind = "devices"
                                    THEN GetDevices(frows, db)
                                    ELSE GetServicesBasic(frows)])
    /\ dbops' = dbops \cup FastUpdates(fkind, frows)
    /\ fprobes' = fprobes + FastProbes(fkind, frows)
    /\ UNCHANGED <<scen, dockVars, batchRest, db, cacheVars, histVars, pingVars, checkVars,
                   statVars, devVars, fkind, frows, fchanged>>

\* the call's query fails: return nil, err
FastCallFail ==
    /\ scen = "fast"
    /\ Len(fresults) < FastCalls
    /\ fresults' = Append(fresults, [ok |-> FALSE, rows |-> <<>>])
    /\ UNCHANGED <<scen, dockVars, batchVars, cacheVars, histVars, pingVars, checkVars,
                   statVars, devVars, fkind, frows, fprobes, fchanged>>

\* another request (a PingDevice) updates a device's row between the calls
FastStoreChange ==
    /\ scen = "fast"
    /\ fkind = "devices"
    /\ Len(fresults) = 1
    /\ ~fchanged
    /\ \E id \in DOMAIN db :
        \/ db' = PersistOnline(db, id, now)
        \/ db' = PersistOffline(db, id)
    /\ fchanged' = TRUE
    /\ UNCHANGED <<scen, dockVars, batchRest, dbops, cacheVars, histVars, pingVars,
                   checkVars, statVars, devVars, fkind, frows, fresults, fprobes>>

(***************************************************************************)
(* DockerService operations on a service built with or without a runtime   *)
(* client (NewDockerService leaves client nil when the connection fails).  *)
(***************************************************************************)
\* the container-scoped operations
DockerOps ==
    {"GetContainers", "GetContainersBasic", "GetContainer", "StartContainer",
     "StopContainer", "RestartContainer", "getContainerStats"}

\* operations whose only result is an error
ErrorOnlyOps == {"StartContainer", "StopContainer", "RestartContainer"}

\* if s.client == nil { return ... } of each operation
NilClientReturn(op) ==
    IF op \in {"GetContainers", "GetContainersBasic"}
    THEN [res |-> "empty", err |-> ""]
    ELSE IF op = "GetContainer"
    THEN [res |-> "nil", err |-> "docker not connected"]
    ELSE IF op \in ErrorOnlyOps
    THEN [res |-> "none", err |-> "docker not connected"]
    ELSE [res |-> "zero", err |-> ""]

\* what each operation returns once the runtime call it makes has ended, ok
\* telling whether that call succeeded
RuntimeReturn(op, ok) ==
    IF op \in {"GetContainers", "GetContainersBasic"}
    THEN [res |-> IF ok THEN "containers" ELSE "empty", err |-> ""]
    ELSE IF op = "GetContainer"
    THEN IF ok THEN [res |-> "container", err |-> ""]
         ELSE [res |-> "nil", err |-> "container not found"]
    ELSE IF op \in ErrorOnlyOps
    THEN [res |-> "none", err |-> IF ok THEN "" ELSE "runtime error"]
    ELSE [res |-> IF ok THEN "stats" ELSE "zero", err |-> ""]

\* an operation is called on a service without a client
DockerCallNil ==
    /\ scen = "docker"
    /\ opc = "call"
    /\ ~connected
    /\ ores' = NilClientReturn(oop).res
    /\ oerr' = NilClientReturn(oop).err
    /\ opc' = "returned"
    /\ UNCHANGED <<scen, batchVars, cacheVars, histVars, pingVars, checkVars,
                   statVars, devVars, fastVars, oop>>

\* an operation is called on a connected service and its runtime call ends
DockerCallRuntime ==
    /\ scen = "docker"
    /\ opc = "call"
    /\ connected
    /\ \E ok \in BOOLEAN :
        /\ ores' = RuntimeReturn(oop, ok).res
        /\ oerr' = RuntimeReturn(oop, ok).err
    /\ opc' = "returned"
    /\ UNCHANGED <<scen, batchVars, cacheVars, histVars, pingVars, checkVars,
                   statVars, devVars, fastVars, oop>>

(***************************************************************************)
(* Specifications: one per subsystem, each from the state after            *)
(* construction.                                                           *)
(***************************************************************************)
InitBatchVars(k) ==
    /\ kind = k
    /\ targets \in TargetLists(k)
    /\ mainpc = "start"
    /\ spawned = 0
    /\ wg = 0
    /\ wpc = [i \in Indices |-> "idle"]
    /\ wlocal = [i \in Indices |-> ZeroOf(k)]
    /\ result = <<>>
    /\ outcome = [i \in Indices |-> NoOutcome(k)]
    /\ completed = <<>>
    /\ db = DeviceTable
    /\ dbops = {}

\* no batch is running
IdleBatchVars ==
    /\ kind = "containers"
    /\ targets = <<>>
    /\ mainpc = "idle"
    /\ spawned = 0
    /\ wg = 0
    /\ wpc = [i \in Indices |-> "idle"]
    /\ wlocal = [i \in Indices |-> ZeroContainer]
    /\ result = <<>>
    /\ outcome = [i \in Indices |-> NoNet]
    /\ completed = <<>>
    /\ db = DeviceTable
    /\ dbops = {}

\* NewMetricsService: empty history, the sampler started
InitHistVars ==
    /\ history = <<>>
    /\ spc = "wait"
    /\ spoint = 0
    /\ nsampled = 0
    /\ hReaders = {}
    /\ hWriter = FALSE
    /\ rpc = [r \in Readers |-> "idle"]
    /\ rlimit = [r \in Readers |-> 0]
    /\ rresult = [r \in Readers |-> <<>>]

InitPingVars ==
    /\ pingpc = "spawn"
    /\ launched = 0
    /\ dialing = 0
    /\ resultCh = <<>>
    /\ pingI = 0
    /\ pingReturn = FALSE
    /\ icmpRun = NoRun
    /\ accepted = 0
    /\ refused = 0

\* no check has begun: there is no status and no error yet
NoStatus == ZeroService

InitCheckVars ==
    /\ hpc = "lookup"
    /\ hrow \in CheckRows
    /\ hargs = [id |-> 0, userID |-> 0]
    /\ hstatus = NoStatus
    /\ hreq = ""
    /\ hport = 1
    /\ netlog = <<>>
    /\ hclock = 0
    /\ hstart = 0
    /\ herr = ""

\* the state of the service check while another subsystem runs
IdleCheckVars ==
    /\ hpc = "idle"
    /\ hrow = CHOOSE r \in CheckRows : TRUE
    /\ hargs = [id |-> 0, userID |-> 0]
    /\ hstatus = NoStatus
    /\ hreq = ""
    /\ hport = 1
    /\ netlog = <<>>
    /\ hclock = 0
    /\ hstart = 0
    /\ herr = ""

\* no stats record is being processed
IdleStatVars ==
    /\ tpc = "idle"
    /\ statsJSON = [cpu |-> QuietCPU, mem |-> QuietMemory]
    /\ cpuPercent = Zero
    /\ memoryPercent = Zero

\* no PingDevice call is running
IdleDevVars ==
    /\ dpc = "idle"
    /\ dargs = [id |-> 0, userID |-> 0]
    /\ isOnline = FALSE
    /\ dprobed = FALSE
    /\ derr = ""

\* no DockerService operation is running
IdleDockVars ==
    /\ opc = "idle"
    /\ oop = ""
    /\ ores = ""
    /\ oerr = ""

\* no fast-path call is running
IdleFastVars ==
    /\ fkind = "devices"
    /\ frows = <<>>
    /\ fresults = <<>>
    /\ fprobes = 0
    /\ fchanged = FALSE

\* a batch call on a freshly constructed service
Init ==
    /\ scen = "batch"
    /\ \E k \in {"services", "devices", "containers"} : InitBatchVars(k)
    /\ connected \in BOOLEAN
    /\ kind # "containers" => connected
    /\ now = 1
    /\ InitCacheVars
    /\ InitHistVars
    /\ InitPingVars
    /\ IdleCheckVars
    /\ IdleStatVars
    /\ IdleDevVars
    /\ IdleFastVars
    /\ IdleDockVars

Next ==
    \/ QueryOK
    \/ QueryFail
    \/ Spawn
    \/ SpawnDone
    \/ WaitReturn
    \/ \E i \in Indices : SvcCheck(i)
    \/ \E i \in Indices : CtrConvert(i)
    \/ \E i \in Indices : CtrCacheStep(i)
    \/ \E i \in Indices : CtrStats(i)
    \/ \E i \in Indices : WriteSlot(i)
    \/ \E i \in Indices : DevPing(i)
    \/ \E i \in Indices : DevPersist(i)
    \/ \E i \in Indices : WorkerDone(i)

Spec == Init /\ [][Next]_vars

\* the steps of a batch that are local or carry a deadline of their own: the
\* dials (DialTimeout), the HTTP exchange (client Timeout, context), the ping
\* utility (-W 1), the stats read (context.WithTimeout).  The store query and
\* the store update are issued without a context and are not among them.
DeadlineSteps ==
    \/ Spawn
    \/ SpawnDone
    \/ WaitReturn
    \/ \E i \in Indices : SvcCheck(i)
    \/ \E i \in Indices : CtrConvert(i)
    \/ \E i \in Indices : CtrCacheStep(i)
    \/ \E i \in Indices : CtrStats(i)
    \/ \E i \in Indices : WriteSlot(i)
    \/ \E i \in Indices : DevPing(i)
    \/ \E i \in Indices : WorkerDone(i)

\* a batch whose goroutines keep running and whose operations with a deadline
\* end by it
SpecBatchFair == Spec /\ WF_vars(DeadlineSteps)

InitCache ==
    /\ scen = "cache"
    /\ IdleBatchVars
    /\ connected = TRUE
    /\ now = 0
    /\ InitCacheVars
    /\ InitHistVars
    /\ InitPingVars
    /\ IdleCheckVars
    /\ IdleStatVars
    /\ IdleDevVars
    /\ IdleFastVars
    /\ IdleDockVars

NextCache ==
    \/ \E c \in Lookups : LookupCall(c)
    \/ \E c \in Lookups : LookupCacheStep(c)
    \/ \E c \in Lookups : LookupReturn(c)
    \/ Tick

SpecCache == InitCache /\ [][NextCache]_vars

InitHistory ==
    /\ scen = "history"
    /\ IdleBatchVars
    /\ connected = TRUE
    /\ now = 0
    /\ InitCacheVars
    /\ InitHistVars
    /\ InitPingVars
    /\ IdleCheckVars
    /\ IdleStatVars
    /\ IdleDevVars
    /\ IdleFastVars
    /\ IdleDockVars

NextHistory ==
    \/ SamplerTick
    \/ SamplerSkip
    \/ SamplerBuild
    \/ SamplerLock
    \/ SamplerAppend
    \/ \E r \in Readers : HistoryRequest(r)
    \/ \E r \in Readers : HistoryRLock(r)
    \/ \E r \in Readers : HistoryCopy(r)
    \/ \E r \in Readers : HistoryRespond(r)

SpecHistory == InitHistory /\ [][NextHistory]_vars

\* one pingDeviceFast call
InitPing ==
    /\ scen = "ping"
    /\ IdleBatchVars
    /\ connected = TRUE
    /\ now = 0
    /\ InitCacheVars
    /\ InitHistVars
    /\ InitPingVars
    /\ IdleCheckVars
    /\ IdleStatVars
    /\ IdleDevVars
    /\ IdleFastVars
    /\ IdleDockVars

NextPing ==
    \/ PingSpawn
    \/ DialAccept
    \/ DialRefuse
    \/ PingReceive
    \/ PingIcmp

SpecPing == InitPing /\ [][NextPing]_vars

\* the goroutines keep running and every DialTimeout ends by its timeout
SpecPingFair == SpecPing /\ WF_vars(NextPing)

\* one GetService / CheckServiceHealth call
InitCheck ==
    /\ scen = "check"
    /\ IdleBatchVars
    /\ connected = TRUE
    /\ now = 0
    /\ InitCacheVars
    /\ InitHistVars
    /\ InitPingVars
    /\ InitCheckVars
    /\ IdleStatVars
    /\ IdleDevVars
    /\ IdleFastVars
    /\ IdleDockVars

NextCheck ==
    \/ CheckLookup
    \/ CheckEnter
    \/ CheckTCP
    \/ CheckPING
    \/ CheckBuildHEAD
    \/ CheckBuildGET
    \/ CheckDoFail
    \/ CheckDoResponse
    \/ CheckFinish

SpecCheck == InitCheck /\ [][NextCheck]_vars

\* the handler's goroutine keeps running: each statement of the call is
\* eventually executed, each network operation ends by its timeout
SpecCheckFair == SpecCheck /\ WF_vars(NextCheck)

\* getContainerStats right after decoder.Decode(&statsJSON) succeeded
InitStats ==
    /\ scen = "stats"
    /\ IdleBatchVars
    /\ connected = TRUE
    /\ now = 0
    /\ InitCacheVars
    /\ InitHistVars
    /\ InitPingVars
    /\ IdleCheckVars
    /\ tpc = "cpu"
    /\ statsJSON \in CPUSamples \cup MemorySamples
    /\ cpuPercent = Zero
    /\ memoryPercent = Zero
    /\ IdleDevVars
    /\ IdleFastVars
    /\ IdleDockVars

NextStats ==
    \/ StatsCPU
    \/ StatsMemory
    \/ StatsReturn

SpecStats == InitStats /\ [][NextStats]_vars

\* one PingDevice call
InitPingDevice ==
    /\ scen = "pingdev"
    /\ IdleBatchVars
    /\ connected = TRUE
    /\ now = 1
    /\ InitCacheVars
    /\ InitHistVars
    /\ InitPingVars
    /\ IdleCheckVars
    /\ IdleStatVars
    /\ dpc = "lookup"
    /\ dargs = [id |-> 0, userID |-> 0]
    /\ isOnline = FALSE
    /\ dprobed = FALSE
    /\ derr = ""
    /\ IdleFastVars
    /\ IdleDockVars

NextPingDevice ==
    \/ PingDeviceLookup
    \/ PingDevicePing
    \/ PingDevicePersist

\* a GetDevicesWithPing batch
InitDeviceBatch ==
    /\ scen = "batch"
    /\ InitBatchVars("devices")
    /\ connected = TRUE
    /\ now = 1
    /\ InitCacheVars
    /\ InitHistVars
    /\ InitPingVars
    /\ IdleCheckVars
    /\ IdleStatVars
    /\ IdleDevVars
    /\ IdleFastVars
    /\ IdleDockVars

NextDeviceBatch ==
    \/ QueryOK
    \/ QueryFail
    \/ Spawn
    \/ SpawnDone
    \/ WaitReturn
    \/ \E i \in Indices : DevPing(i)
    \/ \E i \in Indices : DevPersist(i)
    \/ \E i \in Indices : WorkerDone(i)

\* the device probes: GetDevicesWithPing and PingDevice
SpecDevices ==
    /\ InitDeviceBatch \/ InitPingDevice
    /\ [][NextDeviceBatch \/ NextPingDevice]_vars

\* two consecutive fast-path calls
InitFast ==
    /\ scen = "fast"
    /\ IdleBatchVars
    /\ connected = TRUE
    /\ now = 1
    /\ InitCacheVars
    /\ InitHistVars
    /\ InitPingVars
    /\ IdleCheckVars
    /\ IdleStatVars
    /\ IdleDevVars
    /\ fkind \in {"devices", "services"}
    /\ frows \in TargetLists(fkind)
    /\ fresults = <<>>
    /\ fprobes = 0
    /\ fchanged = FALSE
    /\ IdleDockVars

NextFast ==
    \/ FastCallOK
    \/ FastCallFail
    \/ FastStoreChange

SpecFast == InitFast /\ [][NextFast]_vars

\* one DockerService operation, on a service with or without a client
InitDocker ==
    /\ scen = "docker"
    /\ IdleBatchVars
    /\ connected \in BOOLEAN
    /\ now = 0
    /\ InitCacheVars
    /\ InitHistVars
    /\ InitPingVars
    /\ IdleCheckVars
    /\ IdleStatVars
    /\ IdleDevVars
    /\ IdleFastVars
    /\ opc = "call"
    /\ oop \in DockerOps
    /\ ores = ""
    /\ oerr = ""

NextDocker ==
    \/ DockerCallNil
    \/ DockerCallRuntime

\* the operations of DockerService next to the stats cache they share
SpecDocker ==
    /\ InitDocker \/ InitCache
    /\ [][NextDocker \/ NextCache]_vars

\* the single-target operations: CheckServiceHealth / GetService and PingDevice
SpecSingle ==
    /\ InitCheck \/ InitPingDevice
    /\ [][NextCheck \/ NextPingDevice]_vars

\* a GetContainers batch and a single-container lookup share the stats cache
InitLocks ==
    /\ scen = "locks"
    /\ InitBatchVars("containers")
    \* only a running container's worker calls getCachedStats
    /\ \A i \in 1..Len(targets) : targets[i].State = "running"
    /\ connected = TRUE
    /\ now = 1
    /\ InitCacheVars
    /\ InitHistVars
    /\ InitPingVars
    /\ IdleCheckVars
    /\ IdleStatVars
    /\ IdleDevVars
    /\ IdleFastVars
    /\ IdleDockVars

\* the caller of the concurrent lookup
LockLookups == {101}

NextLocks ==
    \/ QueryOK
    \/ QueryFail
    \/ Spawn
    \/ SpawnDone
    \/ WaitReturn
    \/ \E i \in Indices : CtrConvert(i)
    \/ \E i \in Indices : CtrCacheStep(i)
    \/ \E i \in Indices : CtrStats(i)
    \/ \E i \in Indices : WriteSlot(i)
    \/ \E i \in Indices : WorkerDone(i)
    \/ \E c \in LockLookups : LookupCall(c)
    \/ \E c \in LockLookups : LookupCacheStep(c)
    \/ \E c \in LockLookups : LookupReturn(c)

\* both lock-protected structures: the stats cache and the history buffer
SpecLocks ==
    /\ InitLocks \/ InitHistory
    /\ [][NextLocks \/ NextHistory]_vars


(***************************************************************************)
(* Properties of the fan-out batch.                                        *)
(***************************************************************************)
Returned == scen = "batch" /\ mainpc = "returned"

\* the id a result carries for an input row: convertContainer keeps the first
\* ShortIDLen characters of the runtime's id
ResultID(k, row) == IF k = "containers" THEN ShortID(row.ID) ELSE row.ID

\* the result worker i computed from its own input and its own observation
ComputedFor(i) ==
    IF kind = "devices"
    THEN result[i].IsOnline = PingVerdict(outcome[i])
    ELSE result[i] = wlocal[i]

\* C1 as stated: in every returned batch of any of the three operations,
\* result[i].ID = input[i].ID for every index i.
C1_IdEqualsInputId ==
    Returned => \A i \in 1..N : result[i].ID = targets[i].ID

\* C1 as amended: in every returned batch, whatever the completion order of
\* the workers, the slice has one slot per input and slot i holds the result
\* computed for input i; its ID is input[i].ID for services and devices and
\* the first 12 characters of input[i].ID for containers.
C1_PositionalResults ==
    Returned =>
        /\ Len(result) = N
        /\ \A i \in 1..N :
            /\ result[i].ID = ResultID(kind, targets[i])
            /\ ComputedFor(i)

\* a returned batch of three whose workers completed in reverse input order
C1_Witness ==
    /\ Returned
    /\ kind = "containers"
    /\ N = 3
    /\ completed = <<3, 2, 1>>

\* the probe of target i found it down (no connect, no response, or a status
\* code outside 200..399)
ProbeFailed(i) ==
    IF kind = "devices" THEN ~PingVerdict(outcome[i])
    ELSE /\ targets[i].IsActive
         /\ \/ targets[i].Method = "TCP" /\ ~outcome[i].tcp
            \/ targets[i].Method = "PING"
                /\ \A k \in 1..Len(PingPorts) : ~outcome[i].ports[k]
            \/ targets[i].Method = "GET"
                /\ (outcome[i].http < 200 \/ outcome[i].http >= 400)

\* C2: a returned live batch of services or devices holds exactly one result
\* per requested target, a failed target is present with an explicit failure
\* status, and each result is a function of that target's own probe alone.
C2_OneResultPerTarget ==
    (Returned /\ kind \in {"services", "devices"}) =>
        /\ Len(result) = N
        /\ \A i \in 1..N :
            /\ result[i].ID = targets[i].ID
            /\ kind = "services" =>
                /\ result[i] = CheckService(targets[i], outcome[i])
                /\ result[i].Status \in {"online", "offline", "error", "disabled"}
                /\ ProbeFailed(i) => result[i].Status \in {"offline", "error"}
            /\ kind = "devices" =>
                /\ result[i].IsOnline = PingVerdict(outcome[i])
                /\ ProbeFailed(i) => result[i].IsOnline = FALSE

\* a returned service batch in which one probe failed and a sibling succeeded
C2_Witness ==
    /\ Returned
    /\ kind = "services"
    /\ N = 3
    /\ \E i, j \in 1..N :
        /\ ProbeFailed(i) /\ result[i].Status = "offline"
        /\ result[j].Status = "online"

\* C3: the batch has returned only if every one of its workers has finished
\* (slot written, wg.Done called).
C3_ReturnAfterJoin ==
    Returned => \A i \in 1..N : wpc[i] = "done"

\* a batch of three that returned after its three workers finished
C3_Witness ==
    /\ Returned
    /\ N = 3
    /\ wg = 0
    /\ \A i \in 1..N : wpc[i] = "done"

(***************************************************************************)
(* Properties of the stats cache.                                          *)
(***************************************************************************)
\* the step of caller c out of position p
Leaves(c, p) == cpc[c] = p /\ cpc'[c] # p

\* C6: a getCachedStats call whose freshness test finds an entry of age < TTL
\* (5 s) returns the stored sample, reads nothing from the runtime and leaves
\* the cache as it is; a call that finds no entry or an entry of age >= TTL
\* reads the runtime and then replaces the entry by that sample, stamped with
\* the time of the write.
C6_HitWithinTTL ==
    [][\A c \in Callers :
        /\ Leaves(c, "check") =>
            IF ccached[c].exists /\ now - ccached[c].timestamp < 5
            THEN /\ cpc'[c] = "ret"
                 /\ cstats'[c] = ccached[c].stats
                 /\ cread'[c] = FALSE
                 /\ statsCache' = statsCache
            ELSE cpc'[c] = "fetch"
        /\ Leaves(c, "fetch") => cread'[c] = TRUE
        /\ Leaves(c, "store") =>
            /\ cread[c] = TRUE
            /\ cstats'[c] = cstats[c]
            /\ statsCache'[ckey[c]] =
                 [exists |-> TRUE, stats |-> cstats[c], timestamp |-> now]
        /\ (cpc[c] # "store" /\ cpc'[c] = "ret" /\ cpc[c] # "ret") =>
            cpc[c] = "check"
    ]_vars

\* a call that returned the stored sample of an entry of age TTL - 1 without
\* reading the runtime
C6_Witness ==
    \E c \in Lookups :
        /\ scen = "cache"
        /\ cpc[c] = "ret"
        /\ cread[c] = FALSE
        /\ statsCache[ckey[c]].exists
        /\ now - statsCache[ckey[c]].timestamp = 4
        /\ statsCache[ckey[c]].stats = 2
        /\ cstats[c] = 2

(***************************************************************************)
(* Properties of the two read-write locks.                                 *)
(***************************************************************************)
\* C7: a step that reads the stats cache map is taken by a caller holding the
\* cache lock in shared mode with no writer inside, a step that writes it by
\* the caller holding the lock in exclusive mode with no reader inside, so no
\* write overlaps a read or another write; the history buffer changes only
\* under the sampler's exclusive lock and is copied only under a shared lock
\* with no writer inside.
C7_LockDiscipline ==
    [][/\ \A c \in Callers :
            /\ (cpc[c] = "read" /\ cpc'[c] # "read") =>
                 c \in cacheReaders /\ cacheWriter = NoCaller
            /\ (cpc[c] = "store" /\ cpc'[c] # "store") =>
                 cacheWriter = c /\ cacheReaders = {}
       /\ statsCache' # statsCache =>
            \E c \in Callers :
                /\ cacheWriter = c
                /\ cpc[c] = "store"
                /\ \A d \in Callers \ {c} : cpc[d] \notin {"read", "store"}
       /\ cacheWriter # NoCaller => cacheReaders = {}
       /\ \A r \in Readers :
            (rpc[r] = "copy" /\ rpc'[r] # "copy") =>
                 r \in hReaders /\ ~hWriter /\ spc # "append"
       /\ history' # history => hWriter /\ hReaders = {} /\ spc = "append"
       /\ hWriter => hReaders = {}
    ]_vars

\* a batch worker is about to write the map under the exclusive lock while the
\* lookup waits for the shared lock
C7_Witness ==
    \E i \in Indices, c \in Lookups :
        /\ scen = "locks"
        /\ wpc[i] = "stats"
        /\ cpc[i] = "store"
        /\ cacheWriter = i
        /\ cpc[c] = "rlock"

(***************************************************************************)
(* Properties of the metrics history.                                      *)
(***************************************************************************)
\* the number of appends the sampler has completed
Appended == IF spc \in {"lock", "append"} THEN nsampled - 1 ELSE nsampled

\* C8: the history buffer never holds more than maxHistory (100) points, and
\* after k completed appends it holds exactly the min(k, maxHistory) points
\* appended last, in insertion order (the oldest are the ones evicted).
C8_RingBuffer ==
    scen = "history" =>
        LET k == Appended
            len == Len(history)
        IN  /\ len <= 100
            /\ len = (IF k < 100 THEN k ELSE 100)
            /\ \A i \in 1..len : history[i] = k - len + i

\* 105 points appended: 100 are left, the points 6..105, the oldest 5 evicted
C8_Witness ==
    /\ scen = "history"
    /\ Appended = 105
    /\ Len(history) = 100
    /\ history[1] = 6
    /\ history[100] = 105

\* C9: GetMetricsHistory(N) returns the last min(N, len) points of the buffer,
\* oldest first (N <= 0 counts as N = len), and leaves the buffer as it was;
\* a slice it has returned is not altered by what the sampler appends later.
C9_LastNCopy ==
    [][\A r \in Readers :
        /\ (rpc[r] = "copy" /\ rpc'[r] = "returned") =>
            LET len == Len(history)
                n == rlimit[r]
                m == IF n <= 0 THEN len ELSE IF n < len THEN n ELSE len
            IN  /\ history' = history
                /\ Len(rresult'[r]) = m
                /\ \A i \in 1..m : rresult'[r][i] = history[len - m + i]
                /\ \A i \in 1..m : \A j \in 1..m :
                       i < j => rresult'[r][i] < rresult'[r][j]
        /\ (rpc[r] = "returned" /\ rpc'[r] = "returned") =>
            rresult'[r] = rresult[r]
    ]_vars

\* a slice of the last two points was returned, and the buffer has since
\* received a newer point
C9_Witness ==
    \E r \in Readers :
        /\ scen = "history"
        /\ rpc[r] = "returned"
        /\ rlimit[r] = 2
        /\ Len(rresult[r]) = 2
        /\ Len(history) > 2
        /\ rresult[r][1] + 1 = rresult[r][2]
        /\ rresult[r][2] < history[Len(history)]

\* C10 as stated: the sampler is never waiting for the lock while a
\* GetMetricsHistory call holds it.
C10_SamplerNeverWaitsOnReader ==
    ~(spc = "lock" /\ hReaders # {})

\* C10: a GetMetricsHistory call holds the history lock only while its copy
\* is in progress, so the sampler's append waits only for copies that began
\* before it asked for the lock: no call acquires the lock while the sampler
\* is waiting for it, and nobody else holds the lock exclusively.
C10_SamplerWaitsOnlyForCopiesInProgress ==
    [][/\ \A r \in hReaders : rpc[r] = "copy"
       /\ spc = "lock" => ~hWriter
       /\ (spc = "lock" /\ spc' = "lock") => hReaders' \subseteq hReaders
    ]_vars

\* the sampler waits for the lock while a copy holds it
C10_Witness ==
    \E r \in Readers :
        /\ spc = "lock"
        /\ r \in hReaders
        /\ rpc[r] = "copy"

(***************************************************************************)
(* Properties of pingDeviceFast.                                           *)
(***************************************************************************)
\* the receive loop takes a true from the channel
ReceivesTrue == pingpc = "loop" /\ resultCh # <<>> /\ Head(resultCh) /\ pingI' = pingI + 1

\* C4: the receive that yields the first true makes pingDeviceFast return
\* true at once, however many dials are still in flight or unread, without
\* running the ping utility; the dials left behind can always deliver their
\* result to the channel, and nothing is received after the return.
C4_FirstSuccessReturns ==
    [][/\ ReceivesTrue =>
            /\ pingpc' = "returned"
            /\ pingReturn' = TRUE
            /\ icmpRun' = NoRun
            /\ dialing' = dialing
       /\ pingpc = "returned" =>
            /\ pingpc' = "returned"
            /\ pingReturn' = pingReturn
            /\ pingI' = pingI
            /\ Len(resultCh') >= Len(resultCh)
       /\ dialing > 0 => Len(resultCh) < 14
    ]_vars

\* pingDeviceFast has returned true on the first result it received while
\* other dials were still in flight, and one of them has delivered since
C4_Witness ==
    /\ scen = "ping"
    /\ pingpc = "returned"
    /\ pingReturn = TRUE
    /\ pingI = 1
    /\ icmpRun = NoRun
    /\ dialing > 0
    /\ resultCh # <<>>

\* C5: pingDeviceFast returns true exactly when a port accepted a connect, or
\* all 14 dials failed and the ping utility exited with success; the utility
\* runs only after the 14 failures were received, and each port is dialled
\* once.
C5_TrueIffPortOrPing ==
    /\ pingpc = "returned" =>
         /\ pingReturn =
              (\/ accepted > 0
               \/ (refused = 14 /\ icmpRun.started /\ icmpRun.exit = 0))
         /\ accepted = 0 => (refused = 14 /\ icmpRun # NoRun)
    /\ (pingpc = "icmp" \/ icmpRun # NoRun) =>
         /\ refused = 14
         /\ accepted = 0
         /\ pingI = 14
         /\ dialing = 0
         /\ resultCh = <<>>
    /\ launched <= 14
    /\ accepted + refused + dialing = launched

\* every dial failed, the ping utility ran and exited with 0: true
C5_Witness ==
    /\ scen = "ping"
    /\ pingpc = "returned"
    /\ refused = 14
    /\ icmpRun = [started |-> TRUE, exit |-> 0]
    /\ pingReturn = TRUE

(***************************************************************************)
(* Properties of checkService.                                             *)
(***************************************************************************)
\* the check of the row has returned a status
CheckReturned == scen = "check" /\ hpc = "returned" /\ herr = ""

\* C11: the check of an inactive target, whatever its method, returns status
\* "disabled" with response time 0 and status code 0, and issues no network
\* operation: no dial and no HTTP request.
C11_InactiveIsDisabled ==
    (scen = "check" /\ ~hrow.IsActive) =>
        /\ netlog = <<>>
        /\ hreq = ""
        /\ CheckReturned =>
            /\ hstatus.Status = "disabled"
            /\ hstatus.ResponseTime = 0
            /\ hstatus.StatusCode = 0

\* an inactive TCP target was checked: disabled, nothing dialled
C11_Witness ==
    /\ CheckReturned
    /\ ~hrow.IsActive
    /\ hrow.Method = "TCP"
    /\ hstatus.Status = "disabled"
    /\ netlog = <<>>

\* the HTTP exchange of the check, once it has happened
Exchange == netlog[Len(netlog)]

\* C12: an HTTP check of an active target that received status code c returns
\* "online" for c in 200..399, "error" for c in 400..499 and "offline" for
\* every other c, with StatusCode = c; a check that received no response
\* returns "offline".
C12_StatusCodeClasses ==
    (CheckReturned /\ netlog # <<>> /\ Exchange.op = "http") =>
        LET c == Exchange.code IN
        /\ hrow.IsActive
        /\ hstatus.StatusCode = c
        /\ hstatus.Status =
             (IF c = 0 THEN "offline"
              ELSE IF c \in 200..399 THEN "online"
              ELSE IF c \in 400..499 THEN "error"
              ELSE "offline")

\* a response with status 400 was classified "error"
C12_Witness ==
    /\ CheckReturned
    /\ netlog # <<>>
    /\ Exchange.op = "http"
    /\ Exchange.code = 400
    /\ hstatus.Status = "error"
    /\ hstatus.StatusCode = 400

(***************************************************************************)
(* Properties of the stats arithmetic.                                     *)
(***************************************************************************)
\* calculateCPUPercent has run on the record
CPUComputed == scen = "stats" /\ tpc \in {"memory", "build", "returned"}

\* the memory percentage has been computed
MemoryComputed == scen = "stats" /\ tpc \in {"build", "returned"}

\* fractions that denote the same number
SameNumber(f, n, d) == f.num * d = n * f.den

\* C13: on a record whose counters did not run backwards, calculateCPUPercent
\* returns (container delta / host delta) * n * 100, where n is OnlineCPUs, or
\* the length of PercpuUsage when that is 0, or 1 when both are 0; a host
\* delta of 0 gives 0.
C13_CPUPercentFormula ==
    LET c == statsJSON.cpu
        cd == c.TotalUsage - c.PreTotalUsage
        hd == c.SystemUsage - c.PreSystemUsage
        n == IF c.OnlineCPUs > 0 THEN c.OnlineCPUs
             ELSE IF c.PercpuLen > 0 THEN c.PercpuLen ELSE 1
    IN  (CPUComputed /\ cd >= 0 /\ hd >= 0) =>
            IF hd = 0 THEN cpuPercent.num = 0
            ELSE SameNumber(cpuPercent, cd * n * 100, hd)

\* container delta 1, host delta 5, 2 CPUs online (the ratio of 200 to 1000):
\* 40 percent
C13_Witness ==
    /\ CPUComputed
    /\ statsJSON.cpu.TotalUsage - statsJSON.cpu.PreTotalUsage = 1
    /\ statsJSON.cpu.SystemUsage - statsJSON.cpu.PreSystemUsage = 5
    /\ statsJSON.cpu.OnlineCPUs = 2
    /\ SameNumber(cpuPercent, 40, 1)

\* C14 as stated: when the container counter or the host counter did not
\* advance (current <= preceding), calculateCPUPercent reports 0; the
\* percentage is never negative.
C14_NonPositiveDeltaIsZero ==
    LET c == statsJSON.cpu IN
    CPUComputed =>
        /\ (c.TotalUsage <= c.PreTotalUsage \/ c.SystemUsage <= c.PreSystemUsage)
             => cpuPercent.num = 0
        /\ cpuPercent.num >= 0
        /\ cpuPercent.den > 0

\* C15 as stated: the memory percentage is (usage - cache)/limit * 100 when
\* the cache figure is reported, usage/limit * 100 when it is not, and 0 when
\* limit is 0, for all inputs, a cache figure above usage included.
C15_MemoryPercentFormula ==
    LET m == statsJSON.mem
        used == IF m.CacheReported THEN m.Usage - m.Cache ELSE m.Usage
    IN  MemoryComputed =>
            IF m.Limit > 0 THEN SameNumber(memoryPercent, used * 100, m.Limit)
            ELSE memoryPercent.num = 0

(***************************************************************************)
(* Properties of the device probes.                                        *)
(***************************************************************************)
\* a GetDevicesWithPing batch has returned its devices
DevicesReturned == Returned /\ kind = "devices"

\* worker i has stored the probe's verdict in its slot
Assembled(i) == wpc[i] \in {"persist", "exit", "done"}

\* C16 as stated: in a GetDevicesWithPing batch an update is issued for a
\* device only if the observed status differs from the persisted one, and
\* only once every result has been assembled.
C16_UpdateOnlyOnChange ==
    (scen = "batch" /\ kind = "devices") =>
        \A op \in dbops :
            /\ op.is_online # DeviceTable[op.id].is_online
            /\ \A i \in 1..N : Assembled(i)

\* C17: when GetDevicesWithPing returns, the update of every returned device
\* has been submitted, and the persisted is_online of each returned device
\* equals its returned IsOnline.
C17_WriteBeforeReturn ==
    DevicesReturned =>
        /\ \A i \in Indices : wpc[i] \in {"idle", "done"}
        /\ \A i \in 1..Len(result) :
            /\ \E op \in dbops :
                 op.id = result[i].ID /\ op.is_online = result[i].IsOnline
            /\ db[result[i].ID].is_online = result[i].IsOnline

\* three devices returned, one found online that was stored offline and one
\* found offline that was stored online
C17_Witness ==
    /\ DevicesReturned
    /\ Len(result) = 3
    /\ \E i \in 1..3 : result[i].IsOnline /\ ~targets[i].IsOnline
    /\ \E i \in 1..3 : ~result[i].IsOnline /\ targets[i].IsOnline

\* C18: a device probe gives last_seen a new value only for a device observed
\* online; for a device observed offline it sets is_online to false and
\* leaves the persisted last_seen, and the LastSeen it returns, as they were.
C18_LastSeenOnlyWhenOnline ==
    [][/\ \A id \in DOMAIN db :
            /\ db'[id].last_seen # db[id].last_seen =>
                 /\ db'[id] = [is_online |-> TRUE, last_seen |-> now]
                 /\ OnlineUpdate(id) \in dbops'
            /\ OfflineUpdate(id) \in dbops' \ dbops =>
                 db'[id] = [is_online |-> FALSE, last_seen |-> db[id].last_seen]
       /\ \A i \in 1..Len(result) :
            (kind = "devices" /\ wpc[i] = "persist" /\ wpc'[i] # "persist") =>
                IF result[i].IsOnline
                THEN result'[i].LastSeen = now
                ELSE result'[i].LastSeen = targets[i].LastSeen
       /\ (dpc = "persist" /\ dpc' = "returned") =>
            IF isOnline
            THEN db'[dargs.id].last_seen = now
            ELSE /\ db'[dargs.id].last_seen = db[dargs.id].last_seen
                 /\ ~db'[dargs.id].is_online
    ]_vars

\* device 2, stored online and last seen at 0, was found offline by the batch:
\* is_online is false, last_seen is still 0, and so is the returned LastSeen
C18_Witness ==
    /\ DevicesReturned
    /\ \E i \in 1..Len(result) :
        /\ result[i].ID = 2
        /\ ~result[i].IsOnline
        /\ result[i].LastSeen = 0
    /\ db[2] = [is_online |-> FALSE, last_seen |-> 0]

C20_MissingTargetNotFound ==
    /\ (scen = "check" /\ hpc # "lookup"
          /\ (hrow.ID # hargs.id \/ hrow.UserID # hargs.userID)) =>
            /\ hpc = "returned"
            /\ herr = "service not found"
            /\ hstatus = NoStatus
            /\ hstatus.Status # "offline"
            /\ netlog = <<>>
            /\ dbops = {}
    /\ (scen = "pingdev" /\ dpc # "lookup"
          /\ (dargs.id \notin {1, 2, 3, 4} \/ DeviceOwner[dargs.id] # dargs.userID)) =>
            /\ dpc = "returned"
            /\ derr = "device not found"
            /\ isOnline = FALSE
            /\ dprobed = FALSE
            /\ dbops = {}
            /\ db = DeviceTable

\* PingDevice was asked by user 1 for device 4, which user 2 owns
C20_Witness ==
    /\ scen = "pingdev"
    /\ dpc = "returned"
    /\ dargs = [id |-> 4, userID |-> 1]
    /\ derr = "device not found"
    /\ dbops = {}

(***************************************************************************)
(* Properties of checkService: malformed addresses, the HTTP fallback, the *)
(* PING loop, the returned status and the response time.                   *)
(***************************************************************************)
\* the operations of the check that got no answer from the target
TransportFailures == { k \in 1..Len(netlog) : ~netlog[k].ok }

\* C21: the check of an active target whose address is malformed returns,
\* for every method, a status that is neither "offline" nor the status of a
\* target that answered 4xx.
C21_MalformedAddressDistinct ==
    (CheckReturned /\ hrow.IsActive /\ ~hrow.URLok) =>
        hstatus.Status \notin {"offline", ClassifyHTTP(404)}

\* C22: the first HTTP request of a check is HEAD, a redirect response is
\* classified as received, and a check that returns "offline" after a
\* transport failure has issued a HEAD and then a GET that both failed.
C22_HeadThenGetFallback ==
    (scen = "check" /\ netlog # <<>> /\ netlog[1].op = "http") =>
        /\ netlog[1].what = "HEAD"
        /\ (CheckReturned /\ Exchange.code = 301) => hstatus.StatusCode = 301
        /\ (CheckReturned /\ ~Exchange.ok) =>
              /\ Len(netlog) = 2
              /\ netlog[2].what = "GET"
              /\ TransportFailures = {1, 2}

\* C23: a PING check of an active service dials port 80, then 443, then 22,
\* dials nothing after a connect that succeeded, and returns "online" iff a
\* connect succeeded and "offline" iff all three failed.
C23_PingPortsInOrder ==
    (scen = "check" /\ hrow.IsActive /\ hrow.Method = "PING") =>
        /\ Len(netlog) <= Len(PingPorts)
        /\ \A k \in 1..Len(netlog) :
              /\ netlog[k].op = "dial"
              /\ netlog[k].what = PingPorts[k]
              /\ k < Len(netlog) => ~netlog[k].ok
        /\ CheckReturned =>
              /\ hstatus.Status = "online" <=> \E k \in 1..Len(netlog) : netlog[k].ok
              /\ hstatus.Status = "offline" <=>
                    (Len(netlog) = Len(PingPorts) /\ TransportFailures = {1, 2, 3})
              /\ hstatus.Status \in {"online", "offline"}

\* port 80 refused, port 443 accepted, port 22 was not dialled
C23_Witness ==
    /\ CheckReturned
    /\ hrow.IsActive
    /\ hrow.Method = "PING"
    /\ Len(netlog) = 2
    /\ ~netlog[1].ok
    /\ netlog[2].ok
    /\ netlog[2].what = 443
    /\ hstatus.Status = "online"

\* C24: every checkService call ends, and what it returns is one status out
\* of "online", "offline", "error", "disabled", with no error beside it.
C24_AlwaysAStatus ==
    /\ [](scen = "check" /\ hpc = "returned" /\ Found(hrow, hargs) =>
            /\ herr = ""
            /\ hstatus.ID = hrow.ID
            /\ hstatus.Status \in {"online", "offline", "error", "disabled"})
    /\ (scen = "check" ~> hpc = "returned")

\* an informational response (1xx) came back and the check returned "offline"
C24_Witness ==
    /\ CheckReturned
    /\ netlog # <<>>
    /\ Exchange.code = 100
    /\ hstatus.Status = "offline"

\* C25: the response time a check of an active target returns is the time
\* that passed between start := time.Now() and the return, on every path.
C25_ResponseTimeOnEveryPath ==
    (CheckReturned /\ hrow.IsActive) =>
        hstatus.ResponseTime = hclock - hstart

(***************************************************************************)
(* Properties of DockerService without a runtime client.                   *)
(***************************************************************************)
\* C26: on a service whose client is absent, every container-scoped
\* operation returns an empty collection or a zero value, and none returns
\* an error.
C26_NoClientNoError ==
    (scen = "docker" /\ opc = "returned" /\ ~connected) =>
        /\ oerr = ""
        /\ ores \in {"empty", "zero"}

(***************************************************************************)
(* Termination of the batch.                                               *)
(***************************************************************************)
\* C27: when every operation that has a deadline ends by it, a batch whose
\* query has answered returns, whatever the number of targets: no worker
\* step waits on an operation without a deadline.
C27_BatchReturns ==
    (scen = "batch" /\ mainpc = "spawn") ~> (mainpc = "returned")

(***************************************************************************)
(* Properties of the stats cache under concurrent callers.                 *)
(***************************************************************************)
\* the call has read the runtime and has not stored what it read yet
FetchPending(c) == cread[c] /\ cpc[c] \in {"lock", "store"}

\* C28: of the getCachedStats calls for one container id that found the
\* same entry missing or stale, at most one reads the runtime: no two calls
\* for an id hold a runtime read that is not stored yet.
C28_OneReadPerMiss ==
    \A c, d \in Callers :
        (c # d /\ ckey[c] = ckey[d] /\ FetchPending(c)) => ~FetchPending(d)

(***************************************************************************)
(* Termination of the probe goroutines of pingDeviceFast.                  *)
(***************************************************************************)
\* C29: the results sent and still to be sent never exceed the capacity of
\* the channel, so a goroutine whose dial has ended can always send; and
\* every goroutine that was started ends, also after pingDeviceFast returned.
C29_ProbesTerminate ==
    /\ [](scen = "ping" =>
            /\ Len(resultCh) + dialing + pingI <= NumPorts
            /\ dialing > 0 => Len(resultCh) < NumPorts)
    /\ (scen = "ping" ~> (launched = NumPorts /\ dialing = 0))

\* pingDeviceFast returned true at its first receive and the thirteen
\* goroutines it left behind have all sent and ended
C29_Witness ==
    /\ scen = "ping"
    /\ pingpc = "returned"
    /\ pingReturn
    /\ pingI = 1
    /\ launched = NumPorts
    /\ dialing = 0
    /\ Len(resultCh) = NumPorts - 1

(***************************************************************************)
(* The sample of a failed runtime read in the cache.                       *)
(***************************************************************************)
\* the call stores the zero-value sample of a failed read in this step
StoresFailed(c) == cpc[c] = "store" /\ cpc'[c] = "ret" /\ cstats[c] = 0

\* the call reads the map in this step, less than the TTL after the sample
\* of a failed read was stored for its id
ReadsWithinTTL(c) ==
    /\ cpc[c] = "read"
    /\ cpc'[c] = "check"
    /\ failedAt[ckey[c]] # NoTime
    /\ now - failedAt[ckey[c]] < statsCacheTTL

\* the call tests a copy of the entry that is fresh in this step
TestsFresh(c) ==
    /\ cpc[c] = "check"
    /\ cpc'[c] # "check"
    /\ ccached[c].exists
    /\ now - ccached[c].timestamp < statsCacheTTL

\* what the call does with a fresh copy: it returns the copy's sample and
\* does not read the runtime
ServedFromCache(c) ==
    /\ cpc'[c] = "ret"
    /\ cstats'[c] = ccached[c].stats
    /\ ~cread'[c]

====
